---- MODULE Spec2Model ----
(***************************************************************************)
(* Email Deletifier: the lifecycle orchestrator (main.ts), the mailbox     *)
(* adapter (ImapService) and the classification gateway (OpenAIClassifier) *)
(* as a state machine.                                                     *)
(*                                                                         *)
(* The mailbox (messages, their location, their labels/keywords, the set   *)
(* of boxes) is the provider's state; the orchestrator is a sequential     *)
(* async function whose position is pc.  Every await of an adapter call is *)
(* one action: the call together with the provider's answer.  The          *)
(* transport events 'ready', 'error' and 'end' are actions of their own,   *)
(* interleaved between the orchestrator's steps.                           *)
(***************************************************************************)
EXTENDS Integers, Sequences, FiniteSets, TLC

(***************************************************************************)
(* Bounds of the model.                                                    *)
(***************************************************************************)
NumMsgs == 2
MaxRuns == 2
\* direct calls of the adapter's methods in one session history
MaxCalls == 3
\* emails handed to classifyBatch
MaxBatch == 11
\* top-level boxes in the answer to getBoxes
MaxBoxes == 2

(***************************************************************************)
(* Program constants.                                                      *)
(***************************************************************************)
ADVERTISING_LABEL == "Advertising"
PROCESSED_LABEL == "Processed"
INBOX == "INBOX"
BATCH_SIZE == 50
MAX_EMAIL_AGE_DAYS == 365
DefaultDeleteDays == 60
DefaultBatchLimit == 100
\* classifyBatch: const concurrencyLimit = 5
concurrencyLimit == 5
\* classificationConfidenceThreshold (0.85), in percent
classificationConfidenceThreshold == 85

Msgs == 1..NumMsgs
\* message ages, in days, around the deletion thresholds the model draws
Ages == {59, 60, 61}
\* the values of process.env.DRY_RUN the model draws
DryRunEnv == {"absent", "true", "false"}
\* the values of process.env.DELETE_FROM_ADVERTISING_DAYS the model draws, as
\* digit strings; << >> is the variable being absent (or empty)
DeleteDaysEnv == {<< >>, <<6, 1>>}

VARIABLES
  isGmail,        \* ImapService.isGmail
  envDryRun,      \* process.env.DRY_RUN
  envDeleteDays,  \* process.env.DELETE_FROM_ADVERTISING_DAYS
  envApiKey,      \* process.env.OPENAI_API_KEY is set (and not empty)
  envCredentials, \* process.env.EMAIL_USER and EMAIL_PASSWORD are set (and not empty)
  boxes,          \* provider: the boxes (folders / labels) that exist, by full name
  folder,         \* provider: the box a message physically lies in
  age,            \* provider: the age of a message, in days
  seen,           \* provider: messages carrying the \Seen flag
  dateHeader,     \* provider: the Date header of a message: "valid", "missing", "unparsable"
  labels,         \* provider: Gmail labels (X-GM-LABELS) or keyword flags of a message
  flagged,        \* provider: messages carrying the \Deleted flag
  expunged,       \* provider: messages expunged
  connected,      \* ImapService.connected
  transport,      \* the imap connection: "idle", "connecting", "up", "ending", "down"
  lastEvent,      \* history: the latest event of the imap connection, "none" before any
  pc,             \* position of main()
  run,            \* number of runs started
  inboxEmails,    \* main: result of the first fetch  (NotFetched before it resolves)
  advEmails,      \* main: result of the second fetch (NotFetched before it resolves)
  idx,            \* main: position of the for-of loop in the current pass
  results,        \* main: per message, the reply kind and the ClassificationResult
  branch,         \* main: per message, the branch the second pass took
  counts,         \* main: the counters of both passes
  summaries,      \* main: the pass summaries printed in this run, with their counts
  calls,          \* history: adapter calls issued in this run, with their outcome
  labelsAtStart,  \* history: the labels of every message when the run started
  wire,           \* history: the provider commands the latest adapter call issued
  req,            \* direct call of an adapter method: its options
  ret,            \* direct call of an adapter method: the value it resolved with
  batchLen,       \* classifyBatch: emails.length
  batchI,         \* classifyBatch: the loop variable i
  batchPc,        \* classifyBatch: position
  inFlight,       \* classifyBatch: classifyEmail calls started and not resolved
  batchResults,   \* classifyBatch: indexes of the emails in the results map
  answers,        \* classifier API: the reply each resolved classifyEmail call got
  batchValues,    \* classifyBatch: the results map, index of the email -> result
  delays,         \* classifyBatch: pacing delays waited so far
  ixPc,           \* position of index.ts's main()
  pending,        \* index.ts: adapter calls started whose promise has not settled
  reported,       \* provider: the boxes object that getBoxes hands to listFolders
  listed          \* listFolders: NotListed, Rejected, or the array it resolved with

cfgVars == <<isGmail, envDryRun, envDeleteDays, envApiKey, envCredentials>>
mailVars == <<boxes, folder, age, seen, dateHeader, labels, flagged, expunged>>
sessVars == <<connected, transport, lastEvent>>
mainVars == <<inboxEmails, advEmails, idx, results, branch, counts, summaries>>
svcVars == <<req, ret>>
batchVars == <<batchLen, batchI, batchPc, inFlight, batchResults, answers, batchValues, delays>>
indexVars == <<ixPc, pending>>
\* what main() never touches
listVars == <<reported, listed>>
sideVars == <<svcVars, batchVars, indexVars, listVars>>
vars == <<cfgVars, mailVars, sessVars, pc, run, mainVars, calls, labelsAtStart, wire,
          sideVars>>

(***************************************************************************)
(* Configuration (main.ts constants).                                      *)
(***************************************************************************)
RECURSIVE ParseIntFrom(_, _)
ParseIntFrom(digits, acc) ==
  IF digits = << >> THEN acc
  ELSE ParseIntFrom(Tail(digits), 10 * acc + Head(digits))

\* parseInt(s, 10) of a string of decimal digits
ParseInt(digits) == ParseIntFrom(digits, 0)

\* parseInt(process.env.DELETE_FROM_ADVERTISING_DAYS || '60', 10)
DELETE_FROM_ADVERTISING_DAYS ==
  IF envDeleteDays = << >> THEN DefaultDeleteDays ELSE ParseInt(envDeleteDays)

\* process.env.DRY_RUN === 'true'
DRY_RUN == envDryRun = "true"

(***************************************************************************)
(* Classification gateway (OpenAIClassifier.classifyEmail).                *)
(* A reply is what the completion call produced: a transport error, no     *)
(* content, text that JSON.parse rejects, or a parsed object.  A field of  *)
(* the object is [t |-> typeof, v |-> value]; booleans are 1/0, confidence *)
(* is in percent.                                                          *)
(***************************************************************************)
Field(t, v) == [t |-> t, v |-> v]
Undefined == Field("undefined", 0)
IsAdvertisingFields ==
  {Field("boolean", 1), Field("boolean", 0), Field("string", 0), Undefined}
ConfidenceFields ==
  {Field("number", 90), Field("number", 50), Field("string", 0), Undefined}
ReasonFields == {Field("string", 0), Undefined}

NoObject == [isAdvertising |-> Undefined, confidence |-> Undefined, reason |-> Undefined]
Replies ==
  { [kind |-> k, obj |-> NoObject] : k \in {"transport_error", "empty", "unparsable"} }
  \cup
  { [kind |-> "object",
     obj |-> [isAdvertising |-> a, confidence |-> c, reason |-> r]] :
       a \in IsAdvertisingFields, c \in ConfidenceFields, r \in ReasonFields }

\* the validation of lines 126-128
ValidFormat(obj) ==
  /\ obj.isAdvertising.t = "boolean"
  /\ obj.confidence.t = "number"
  /\ obj.reason.t = "string"

\* 'Error during classification', among the reason texts (0 is the reply's)
ErrorReason == 1

\* the safe default of the catch block
DefaultResult == [isAdvertising |-> FALSE, confidence |-> 0, reason |-> ErrorReason]

\* mutant: the reply's types are not validated
classifyEmailUnvalidated(reply) ==
  IF reply.kind = "object"
  THEN [isAdvertising |-> reply.obj.isAdvertising.v = 1,
        confidence |-> reply.obj.confidence.v,
        reason |-> reply.obj.reason.v]
  ELSE DefaultResult

\* mutant: the type of reason is not validated
classifyEmailNoReasonCheck(reply) ==
  IF /\ reply.kind = "object"
     /\ reply.obj.isAdvertising.t = "boolean"
     /\ reply.obj.confidence.t = "number"
  THEN [isAdvertising |-> reply.obj.isAdvertising.v = 1,
        confidence |-> reply.obj.confidence.v,
        reason |-> reply.obj.reason.v]
  ELSE DefaultResult

classifyEmail(reply) ==
  IF reply.kind = "object" /\ ValidFormat(reply.obj)
  THEN [isAdvertising |-> reply.obj.isAdvertising.v = 1,
        confidence |-> reply.obj.confidence.v,
        reason |-> reply.obj.reason.v]
  ELSE DefaultResult

\* history: the shape of a reply as the classifier boundary describes it, told
\* from the reply alone
ReplyShape(reply) ==
  CASE reply.kind = "transport_error" -> "failed"
    [] reply.kind \in {"empty", "unparsable"} -> "malformed"
    [] OTHER ->
         IF \/ reply.obj.isAdvertising.t # "boolean"
            \/ reply.obj.confidence.t # "number"
            \/ reply.obj.reason.t # "string"
         THEN "malformed" ELSE "wellformed"

NoResult == [kind |-> "none", isAdvertising |-> FALSE, confidence |-> 0]

\* the replies the classifier API gives to the calls of a batch: the request
\* fails, or a well-formed verdict
FailedReply == [kind |-> "transport_error", obj |-> NoObject]
BatchReplies ==
  { FailedReply,
    [kind |-> "object",
     obj |-> [isAdvertising |-> Field("boolean", 1),
              confidence |-> Field("number", 90),
              reason |-> Field("string", 0)]] }

\* results.set(email.id, result)
MapSet(map, key, value) ==
  [k \in DOMAIN map \cup {key} |-> IF k = key THEN value ELSE map[k]]

(***************************************************************************)
(* Mailbox adapter (ImapService): pure parts.                              *)
(***************************************************************************)
RECURSIVE SeqOfSet(_)
\* the ids of a set in ascending order, as the provider's search reports them
SeqOfSet(S) ==
  IF S = {} THEN << >>
  ELSE LET m == CHOOSE x \in S : \A y \in S : x <= y
       IN <<m>> \o SeqOfSet(S \ {m})

Range(s) == { s[i] : i \in 1..Len(s) }

\* mutant: the search results are not cut to the batch size
SliceAll(s, n) == s

\* results.slice(0, n)
Slice(s, n) == IF Len(s) <= n THEN s ELSE SubSeq(s, 1, n)

\* whether message m is shown in box b
\* Gmail: INBOX holds the message itself, a label's box shows the messages tagged with it
InBox(m, b) ==
  /\ m \notin expunged
  /\ IF isGmail THEN (b = folder[m] \/ b \in labels[m]) ELSE b = folder[m]

\* mutant: the raw query lacks -label:Processed
GmailSearchNoExclusion(b, maxAgeDays) ==
  { m \in Msgs : /\ InBox(m, b)
                 /\ (maxAgeDays # 0 => age[m] <= maxAgeDays) }

\* fetchEmails: the search criteria, and the messages they match in the opened box
GmailSearch(b, maxAgeDays) ==
  { m \in Msgs : /\ InBox(m, b)
                 /\ PROCESSED_LABEL \notin labels[m]
                 /\ (maxAgeDays # 0 => age[m] <= maxAgeDays) }

\* a FetchOptions value
FetchOptions(maxAgeDays, batchSize, includeRead, includeUnread) ==
  [maxAgeDays |-> maxAgeDays, batchSize |-> batchSize,
   includeRead |-> includeRead, includeUnread |-> includeUnread]

\* the options of both fetches of main()
MainOptions == FetchOptions(MAX_EMAIL_AGE_DAYS, BATCH_SIZE, TRUE, TRUE)

\* mutant: with neither flag set, no read-state term is added
ReadStateTermsNeitherAll(includeRead, includeUnread) ==
  IF includeRead /\ ~includeUnread THEN <<"SEEN">>
  ELSE IF ~includeRead /\ includeUnread THEN <<"UNSEEN">>
  ELSE << >>

\* the read/unread criteria of the standard IMAP search
ReadStateTerms(includeRead, includeUnread) ==
  IF ~includeRead /\ ~includeUnread THEN <<"UNSEEN">>
  ELSE IF includeRead /\ ~includeUnread THEN <<"SEEN">>
  ELSE IF ~includeRead /\ includeUnread THEN <<"UNSEEN">>
  ELSE << >>

\* searchCriteria of the standard IMAP search: ALL, the date criteria, the
\* read/unread criteria
ImapTerms(options) ==
  <<"ALL">>
  \o (IF options.maxAgeDays # 0 THEN <<"SINCE">> ELSE << >>)
  \o ReadStateTerms(options.includeRead, options.includeUnread)

ImapSearch(b, options) ==
  { m \in Msgs : /\ InBox(m, b)
                 /\ ("SINCE" \in Range(ImapTerms(options)) => age[m] <= options.maxAgeDays)
                 /\ ("UNSEEN" \in Range(ImapTerms(options)) => m \notin seen)
                 /\ ("SEEN" \in Range(ImapTerms(options)) => m \in seen) }

Search(b, options) ==
  IF isGmail THEN GmailSearch(b, options.maxAgeDays) ELSE ImapSearch(b, options)

\* results.slice(0, options.batchSize || 100)
LimitedResults(b, options) ==
  Slice(SeqOfSet(Search(b, options)),
        IF options.batchSize # 0 THEN options.batchSize ELSE DefaultBatchLimit)

\* the Email record of a fetched message
\* Math.floor((Date.now() - new Date(text).getTime()) / day) of a Date header
\* that does not parse: getTime() of an invalid Date is NaN and so is the
\* result; NaN compares false with every threshold, as this number does
NaN == -1

\* header.date?.[0] absent: ageInDays keeps its initial 0; present: the floor
\* of the elapsed days of whatever new Date(header.date[0]) is
AgeInDays(m) ==
  CASE dateHeader[m] = "missing" -> 0
    [] dateHeader[m] = "unparsable" -> NaN
    [] OTHER -> age[m]

Email(m) == [id |-> m, ageInDays |-> AgeInDays(m), labels |-> labels[m]]

Emails(ids) == [i \in 1..Len(ids) |-> Email(ids[i])]

\* openBox succeeds only on a box that exists
CanOpen(b) == b = INBOX \/ b \in boxes

\* createFolder: the name handed to addBox
CreateName(folderName) ==
  IF isGmail THEN "[Gmail]/" \o folderName ELSE folderName

\* mutant: the [Gmail]/ prefix is not removed
ListedNameRaw(b) == b

\* listFolders: the names listed for the boxes the provider reports
ListedName(b) ==
  IF isGmail
  THEN (IF b = "[Gmail]/Advertising" THEN "Advertising"
        ELSE IF b = "[Gmail]/Processed" THEN "Processed" ELSE b)
  ELSE b

listFolders == { ListedName(b) : b \in boxes }

(***************************************************************************)
(* listFolders over the boxes object of getBoxes.  A name is the sequence  *)
(* of its characters; a box is its name (or none), and the array of its    *)
(* children (empty when it has none or when children is not an array).     *)
(***************************************************************************)
Chars_Gmail == <<"[", "G", "m", "a", "i", "l", "]", "/">>
Chars_undefined == <<"u", "n", "d", "e", "f", "i", "n", "e", "d">>

Box(hasName, name, children) == [hasName |-> hasName, name |-> name, children |-> children]

\* pattern p occurs in s at position i
OccursAt(s, p, i) == i + Len(p) - 1 <= Len(s) /\ SubSeq(s, i, i + Len(p) - 1) = p

\* s.replace(p, ''): the first occurrence of p removed
ReplaceFirst(s, p) ==
  LET hits == { i \in 1..Len(s) : OccursAt(s, p, i) }
  IN IF hits = {} THEN s
     ELSE LET i == CHOOSE h \in hits : \A k \in hits : h <= k
          IN SubSeq(s, 1, i - 1) \o SubSeq(s, i + Len(p), Len(s))

\* s.trim()
Trim(s) ==
  LET ink == { i \in 1..Len(s) : s[i] # " " }
  IN IF ink = {} THEN << >>
     ELSE SubSeq(s, CHOOSE a \in ink : \A k \in ink : a <= k,
                    CHOOSE b \in ink : \A k \in ink : b >= k)

\* '' + box.name, as string concatenation renders a missing name
NameText(box) == IF box.hasName THEN box.name ELSE Chars_undefined

\* box.name is truthy
Named(box) == box.hasName /\ box.name # << >>

\* if (folderName && !folders.includes(folderName)) folders.push(folderName)
PushNew(folders, folderName) ==
  IF folderName # << >> /\ \A i \in 1..Len(folders) : folders[i] # folderName
  THEN Append(folders, folderName) ELSE folders

\* the name processBox lists for a named box
FolderName(box, prefix) ==
  IF isGmail THEN ReplaceFirst(box.name, Chars_Gmail) ELSE prefix \o box.name

RECURSIVE processBox(_, _, _), ProcessAll(_, _, _)
\* processBox(box, prefix), folders being the array it pushes to
processBox(box, prefix, folders) ==
  ProcessAll(box.children, prefix \o NameText(box) \o <<"/">>,
             IF Named(box) THEN PushNew(folders, FolderName(box, prefix)) ELSE folders)

\* forEach over an array of boxes
ProcessAll(bs, prefix, folders) ==
  IF bs = << >> THEN folders
  ELSE ProcessAll(Tail(bs), prefix, processBox(Head(bs), prefix, folders))

\* folders.filter(folder => folder && folder.trim() !== '')
validFolders(folders) == SelectSeq(folders, LAMBDA f : f # << >> /\ Trim(f) # << >>)

\* what listFolders resolves with for the boxes object bs
ListingOf(bs) == validFolders(ProcessAll(bs, << >>, << >>))

NotListed == [state |-> "none", folders |-> << >>]
Rejected == [state |-> "rejected", folders |-> << >>]
Resolved(folders) == [state |-> "resolved", folders |-> folders]

NotFetched == <<[id |-> 0, ageInDays |-> 0, labels |-> {}]>>

Call(op, id, arg, res) == [op |-> op, id |-> id, arg |-> arg, res |-> res]

\* a command sent to the provider through the imap connection, and its answer
Cmd(cmd, arg, rsp) == [cmd |-> cmd, arg |-> arg, rsp |-> rsp]

\* the commands of w that the provider carried out
Done(w, cmd) == \E i \in 1..Len(w) : w[i].cmd = cmd /\ w[i].rsp = "ok"

\* FetchOptions before any direct call
NoRequest == FetchOptions(0, 0, TRUE, TRUE)

\* nothing returned
NoReturn == [folders |-> {}, emails |-> << >>]

ZeroCounts ==
  [processedCount |-> 0, skippedCount |-> 0, advertisingCount |-> 0,
   notAdvertisingCount |-> 0, deletedCount |-> 0, skippedDeletionCount |-> 0]

(***************************************************************************)
(* Initial state: the configuration and the mailbox before the first run.  *)
(* No message carries a lifecycle label yet; on a folder provider a        *)
(* message may already lie in the Advertising folder.                      *)
(***************************************************************************)
InitBoxes == {{}, {ADVERTISING_LABEL, PROCESSED_LABEL}}

InitWith(ages, headers, trees) ==
  /\ isGmail \in BOOLEAN
  /\ envDryRun \in DryRunEnv
  /\ envDeleteDays \in DeleteDaysEnv
  /\ envApiKey \in BOOLEAN
  /\ envCredentials \in BOOLEAN
  /\ boxes \in InitBoxes
  /\ folder \in [Msgs -> {INBOX, ADVERTISING_LABEL}]
  /\ \A m \in Msgs : folder[m] = ADVERTISING_LABEL => (~isGmail /\ ADVERTISING_LABEL \in boxes)
  /\ age \in [Msgs -> ages]
  /\ seen = {1}
  /\ dateHeader \in headers
  /\ labels = [m \in Msgs |-> {}]
  /\ flagged = {}
  /\ expunged = {}
  /\ connected = FALSE
  /\ transport = "idle"
  /\ lastEvent = "none"
  /\ pc = "idle"
  /\ run = 0
  /\ inboxEmails = NotFetched
  /\ advEmails = NotFetched
  /\ idx = 1
  /\ results = [m \in Msgs |-> NoResult]
  /\ branch = [m \in Msgs |-> "none"]
  /\ counts = ZeroCounts
  /\ summaries = << >>
  /\ calls = << >>
  /\ labelsAtStart = [m \in Msgs |-> {}]
  /\ wire = << >>
  /\ req = NoRequest
  /\ ret = NoReturn
  /\ batchLen = 0
  /\ batchI = 0
  /\ batchPc = "idle"
  /\ inFlight = {}
  /\ batchResults = {}
  /\ answers = [j \in {} |-> FailedReply]
  /\ batchValues = [j \in {} |-> DefaultResult]
  /\ delays = 0
  /\ ixPc = "idle"
  /\ pending = {}
  /\ reported \in trees
  /\ listed = NotListed

\* no listing of a reported tree is under way
InitAt(ages, headers) == InitWith(ages, headers, {<< >>})

\* every message with a Date header that parses
AllValid == { [m \in Msgs |-> "valid"] }

Init == InitAt(Ages, AllValid)

(***************************************************************************)
(* ImapService: connect, the transport's events, disconnect.               *)
(***************************************************************************)
\* main() of a new process: new ImapService(), then await imapService.connect()
BeginRun ==
  /\ run' = run + 1
  /\ connected' = FALSE
  /\ transport' = "connecting"
  /\ lastEvent' = "none"
  /\ pc' = "connecting"
  /\ inboxEmails' = NotFetched
  /\ advEmails' = NotFetched
  /\ idx' = 1
  /\ results' = [m \in Msgs |-> NoResult]
  /\ branch' = [m \in Msgs |-> "none"]
  /\ counts' = ZeroCounts
  /\ summaries' = << >>
  /\ calls' = << >>
  /\ labelsAtStart' = labels
  /\ wire' = <<Cmd("connect", "", "sent")>>
  /\ UNCHANGED <<cfgVars, sideVars, mailVars>>

\* if (!OPENAI_API_KEY) { console.error(...); process.exit(1) }: main() is never called
ExitNoApiKey ==
  /\ pc = "idle"
  /\ ~envApiKey
  /\ pc' = "exited"
  /\ UNCHANGED <<cfgVars, sideVars, mailVars, sessVars, run, mainVars, calls, labelsAtStart,
                 wire>>

\* the first run: main() is called at the end of the module
StartRun ==
  /\ pc = "idle"
  /\ envApiKey
  /\ BeginRun

\* a further run of the program, after the one before it has ended
Restart ==
  /\ pc = "done"
  /\ run < MaxRuns
  /\ BeginRun

\* 'ready': both handlers set connected; connect() resolves
EvReady ==
  /\ transport = "connecting"
  /\ transport' = "up"
  /\ connected' = TRUE
  /\ lastEvent' = "ready"
  /\ pc' = IF pc = "connecting" THEN "ensureAdv" ELSE pc
  /\ UNCHANGED <<cfgVars, sideVars, mailVars, run, mainVars, calls, labelsAtStart, wire>>

\* mutant: the 'error' handler leaves the flag alone
EvErrorKeepsFlag ==
  /\ transport \in {"connecting", "up"}
  /\ transport' = "down"
  /\ connected' = connected
  /\ lastEvent' = "error"
  /\ pc' = IF pc = "connecting" THEN "finally" ELSE pc
  /\ UNCHANGED <<cfgVars, sideVars, mailVars, run, mainVars, calls, labelsAtStart, wire>>

\* 'error': connected := false; a pending connect() rejects, main's catch logs it
EvError ==
  /\ transport \in {"connecting", "up"}
  /\ transport' = "down"
  /\ connected' = FALSE
  /\ lastEvent' = "error"
  /\ pc' = IF pc = "connecting" THEN "finally" ELSE pc
  /\ UNCHANGED <<cfgVars, sideVars, mailVars, run, mainVars, calls, labelsAtStart, wire>>

\* 'end': connected := false; a pending disconnect() resolves
EvEnd ==
  /\ transport \in {"up", "ending"}
  /\ transport' = "down"
  /\ connected' = FALSE
  /\ lastEvent' = "end"
  /\ pc' = IF pc = "disconnecting" THEN "done" ELSE pc
  /\ UNCHANGED <<cfgVars, sideVars, mailVars, run, mainVars, calls, labelsAtStart, wire>>

\* mutant: connect() does not look at the connected flag
connectCommandsUnguarded == <<Cmd("connect", "", "sent")>>

\* connect(): if (this.connected) return; else this.imap.connect()
connectCommands == IF connected THEN << >> ELSE <<Cmd("connect", "", "sent")>>

\* disconnect(): if (!this.connected) return; else this.imap.end()
disconnectCommands == IF ~connected THEN << >> ELSE <<Cmd("end", "", "sent")>>

\* connect(): the promise settles on 'ready' or 'error' (EvReady, EvError)
connect ==
  LET w == connectCommands
  IN /\ wire' = w
     /\ calls' = Append(calls, Call("connect", 0, "", IF w = << >> THEN "noop" ELSE "sent"))
     /\ transport' = IF w = << >> THEN transport ELSE "connecting"
     /\ UNCHANGED <<connected, lastEvent>>

\* disconnect(): the promise settles on 'end' (EvEnd)
disconnect ==
  LET w == disconnectCommands
  IN /\ wire' = w
     /\ calls' = Append(calls, Call("disconnect", 0, "", IF w = << >> THEN "noop" ELSE "end"))
     /\ transport' = IF w = << >> THEN transport ELSE "ending"
     /\ UNCHANGED <<connected, lastEvent>>

\* finally { await imapService.disconnect() }
Disconnect ==
  /\ pc = "finally"
  /\ disconnect
  /\ pc' = IF disconnectCommands = << >> THEN "done" ELSE "disconnecting"
  /\ UNCHANGED <<cfgVars, sideVars, mailVars, run, mainVars, labelsAtStart>>

(***************************************************************************)
(* ImapService.ensureFolderExists = listFolders, then createFolder.        *)
(***************************************************************************)
\* listFolders(): what the provider may answer
ListOutcomes == IF ~connected THEN {"not_connected"} ELSE {"ok", "err"}

ListCommands(res) ==
  CASE res = "not_connected" -> << >>
    [] res = "ok" -> <<Cmd("getBoxes", "", "ok")>>
    [] OTHER -> <<Cmd("getBoxes", "", "err")>>

\* createFolder(folderName): the provider creates the box, answers that it
\* already exists (it does, or another client has just created it), or fails
CreateOutcomes(folderName) ==
  IF ~connected THEN {"not_connected"}
  ELSE IF CreateName(folderName) \in boxes THEN {"duplicate", "create_err"}
  ELSE {"created", "duplicate", "create_err"}

CreateCommands(folderName, res) ==
  CASE res = "not_connected" -> << >>
    [] res = "created" -> <<Cmd("addBox", CreateName(folderName), "ok")>>
    [] res = "duplicate" -> <<Cmd("addBox", CreateName(folderName), "duplicate")>>
    [] OTHER -> <<Cmd("addBox", CreateName(folderName), "err")>>

\* mutant: the boxes the provider had before are lost
BoxesAfterOnlyNew(w) ==
  { w[i].arg : i \in { j \in 1..Len(w) :
                         /\ w[j].cmd = "addBox"
                         /\ w[j].rsp \in {"ok", "duplicate"} } }

\* the boxes of the provider after the commands w
BoxesAfter(w) ==
  boxes \cup { w[i].arg : i \in { j \in 1..Len(w) :
                                     /\ w[j].cmd = "addBox"
                                     /\ w[j].rsp \in {"ok", "duplicate"} } }

\* mutant: an "already exists" answer is an error like any other
CreateResultStrict(res) ==
  CASE res = "created" -> "ok"
    [] res = "not_connected" -> "not_connected"
    [] OTHER -> "err"

\* handleDuplicate: "already exists" / "Duplicate folder name" resolves
CreateResult(res) ==
  CASE res \in {"created", "duplicate"} -> "ok"
    [] res = "not_connected" -> "not_connected"
    [] OTHER -> "err"

EnsureOutcomes(folderName) ==
  IF ~connected THEN {"not_connected"}
  ELSE IF folderName \in listFolders THEN {"exists", "list_err"}
  ELSE {"created", "duplicate", "create_err", "list_err"}

\* listFolders(), then createFolder() when the name is not listed
EnsureCommands(folderName, res) ==
  CASE res = "not_connected" -> << >>
    [] res = "exists" -> ListCommands("ok")
    [] res = "list_err" -> ListCommands("err")
    [] OTHER -> ListCommands("ok") \o CreateCommands(folderName, res)

\* resolves when the location is listed, was created, or the create was answered
\* "already exists"; throws otherwise
EnsureResult(res) ==
  CASE res = "exists" -> "ok"
    [] res \in {"created", "duplicate", "create_err"} -> CreateResult(res)
    [] res = "not_connected" -> "not_connected"
    [] OTHER -> "err"

ensureFolderExists(folderName, res) ==
  /\ res \in EnsureOutcomes(folderName)
  /\ wire' = EnsureCommands(folderName, res)
  /\ boxes' = BoxesAfter(EnsureCommands(folderName, res))
  /\ calls' = Append(calls, Call("ensureFolderExists", 0, folderName, EnsureResult(res)))

\* mutant: an error of ensureFolderExists is swallowed
AfterEnsureSwallow(res, next) == next

\* an error of ensureFolderExists reaches main's catch
AfterEnsure(res, next) == IF EnsureResult(res) = "ok" THEN next ELSE "finally"

EnsureAdvertising ==
  /\ pc = "ensureAdv"
  /\ \E res \in {"not_connected", "exists", "list_err", "created", "duplicate", "create_err"} :
       /\ ensureFolderExists(ADVERTISING_LABEL, res)
       /\ pc' = AfterEnsure(res, "ensureProc")
  /\ UNCHANGED <<cfgVars, sideVars, folder, age, seen, dateHeader, labels, flagged, expunged, sessVars, run,
                 mainVars, labelsAtStart>>

EnsureProcessed ==
  /\ pc = "ensureProc"
  /\ \E res \in {"not_connected", "exists", "list_err", "created", "duplicate", "create_err"} :
       /\ ensureFolderExists(PROCESSED_LABEL, res)
       /\ pc' = AfterEnsure(res, "fetch1")
  /\ UNCHANGED <<cfgVars, sideVars, folder, age, seen, dateHeader, labels, flagged, expunged, sessVars, run,
                 mainVars, labelsAtStart>>

(***************************************************************************)
(* ImapService.fetchEmails.  The provider answers with an error, or        *)
(* delivers all, none or only some of the messages the search matched.     *)
(* With only some delivered, neither the 'message' end handler             *)
(* (processedCount === limitedResults.length) nor the fetch 'end' handler  *)
(* (processedCount === 0) settles the promise: the caller waits for ever.  *)
(***************************************************************************)
FetchOutcomes(folderName, ids) ==
  IF ~connected THEN {"not_connected"}
  ELSE IF ~CanOpen(folderName) THEN {"err"}
  ELSE {"err", "all"}
       \cup (IF Len(ids) >= 1 THEN {"none"} ELSE {})
       \cup (IF Len(ids) >= 2 THEN {"partial"} ELSE {})

\* the search criteria handed to imap.search
SearchCriteria(options) ==
  IF isGmail
  THEN "X-GM-RAW -label:Processed" \o (IF options.maxAgeDays # 0 THEN " after:" ELSE "")
  ELSE LET terms == ImapTerms(options)
           text[n \in 0..Len(terms)] ==
             IF n = 0 THEN ""
             ELSE text[n - 1] \o (IF n = 1 THEN "" ELSE " ") \o terms[n]
       IN text[Len(terms)]

\* the commands a call may have issued, by its outcome: openBox, search, fetch,
\* each only after the one before it succeeded; no fetch for an empty search
FetchCommands(folderName, options, ids, res) ==
  LET open(rsp) == <<Cmd("openBox", folderName, rsp)>>
      search(rsp) == <<Cmd("search", SearchCriteria(options), rsp)>>
      fetch(rsp) == <<Cmd("fetch", "", rsp)>>
  IN CASE res = "not_connected" -> {<< >>}
       [] res = "err" ->
            IF ~CanOpen(folderName) THEN {open("err")}
            ELSE {open("err"), open("ok") \o search("err")}
                 \cup (IF Len(ids) >= 1
                       THEN {open("ok") \o search("ok") \o fetch("err")} ELSE {})
       [] res = "all" /\ Len(ids) = 0 -> {open("ok") \o search("ok")}
       [] OTHER -> {open("ok") \o search("ok") \o fetch(res)}

\* fetchEmails(options, folderName), ids being what the capped search matched
fetchEmails(folderName, options, ids, res) ==
  /\ res \in FetchOutcomes(folderName, ids)
  /\ wire' \in FetchCommands(folderName, options, ids, res)
  /\ calls' = Append(calls, Call("fetchEmails", 0, folderName, res))

\* the value the promise resolves with
FetchValue(ids, res) == IF res = "all" THEN Emails(ids) ELSE << >>

\* where main() continues after an await of fetchEmails
AfterFetch(res, emails, loop, after) ==
  CASE res \in {"not_connected", "err"} -> "finally"
    [] res = "partial" -> "hung"
    [] OTHER -> IF Len(emails) = 0 THEN after ELSE loop

\* FIRST PASS: const inboxEmails = await imapService.fetchEmails({...})
FetchInbox ==
  /\ pc = "fetch1"
  /\ LET ids == LimitedResults(INBOX, MainOptions)
     IN \E res \in {"not_connected", "err", "all", "none", "partial"} :
          /\ fetchEmails(INBOX, MainOptions, ids, res)
          /\ inboxEmails' = IF res \in {"all", "none"}
                            THEN FetchValue(ids, res) ELSE inboxEmails
          /\ pc' = AfterFetch(res, FetchValue(ids, res), "p1", "sum1")
  /\ idx' = 1
  /\ UNCHANGED <<cfgVars, sideVars, mailVars, sessVars, run, advEmails, results, branch,
                 counts, summaries, labelsAtStart>>

\* SECOND PASS: const advEmails = await imapService.fetchEmails({...}, ADVERTISING_LABEL)
FetchAdvertising ==
  /\ pc = "fetch2"
  /\ LET ids == LimitedResults(ADVERTISING_LABEL, MainOptions)
     IN \E res \in {"not_connected", "err", "all", "none", "partial"} :
          /\ fetchEmails(ADVERTISING_LABEL, MainOptions, ids, res)
          /\ advEmails' = IF res \in {"all", "none"}
                          THEN FetchValue(ids, res) ELSE advEmails
          /\ pc' = AfterFetch(res, FetchValue(ids, res), "p2", "sum2")
  /\ idx' = 1
  /\ UNCHANGED <<cfgVars, sideVars, mailVars, sessVars, run, inboxEmails, results, branch,
                 counts, summaries, labelsAtStart>>

(***************************************************************************)
(* ImapService.addLabel and ImapService.deleteEmail.                       *)
(***************************************************************************)
\* mutant: addLabel does not look at the connected flag
AddLabelOutcomesUnguarded == {"ok", "err"}

AddLabelOutcomes == IF connected THEN {"ok", "err"} ELSE {"not_connected"}

\* mutant: the box of the label is opened instead of INBOX
AddLabelCommandsOpenLabel(label, res) ==
  LET open(rsp) == <<Cmd("openBox", label, rsp)>>
      store(rsp) == <<Cmd(IF isGmail THEN "addLabels" ELSE "addFlags", label, rsp)>>
  IN CASE res = "not_connected" -> {<< >>}
       [] res = "ok" -> {open("ok") \o store("ok")}
       [] OTHER -> {open("err"), open("ok") \o store("err")}

\* openBox('INBOX'), then addLabels (Gmail) or addFlags; an error is the failure
\* of either step
AddLabelCommands(label, res) ==
  LET open(rsp) == <<Cmd("openBox", INBOX, rsp)>>
      store(rsp) == <<Cmd(IF isGmail THEN "addLabels" ELSE "addFlags", label, rsp)>>
  IN CASE res = "not_connected" -> {<< >>}
       [] res = "ok" -> {open("ok") \o store("ok")}
       [] OTHER -> {open("err"), open("ok") \o store("err")}

\* opens INBOX, then addLabels (Gmail) or addFlags; on Gmail storing a label
\* that does not exist yet creates it
addLabel(emailId, label, res) ==
  /\ res \in AddLabelOutcomes
  /\ wire' \in AddLabelCommands(label, res)
  /\ labels' = IF res = "ok" /\ InBox(emailId, INBOX)
               THEN [labels EXCEPT ![emailId] = @ \cup {label}] ELSE labels
  /\ boxes' = IF res = "ok" /\ isGmail THEN boxes \cup {label} ELSE boxes
  /\ calls' = Append(calls, Call("addLabel", emailId, label, res))

DeleteOutcomes(folderName) ==
  IF ~connected THEN {"not_connected"}
  ELSE IF ~CanOpen(folderName) THEN {"open_err"}
  ELSE {"ok", "open_err", "flag_err", "expunge_err"}

\* mutant: the expunge does not wait for the answer to the flag step
DeleteCommandsNoStop(folderName, res) ==
  LET open(rsp) == <<Cmd("openBox", folderName, rsp)>>
      flag(rsp) == <<Cmd("addFlags", "\\Deleted", rsp)>>
      expunge(rsp) == <<Cmd("expunge", "", rsp)>>
  IN CASE res = "not_connected" -> << >>
       [] res = "open_err" -> open("err")
       [] res = "flag_err" -> open("ok") \o flag("err") \o expunge("ok")
       [] res = "expunge_err" -> open("ok") \o flag("ok") \o expunge("err")
       [] OTHER -> open("ok") \o flag("ok") \o expunge("ok")

\* openBox(folderName), addFlags(\Deleted), expunge: each in the callback of
\* the one before, after its error check
DeleteCommands(folderName, res) ==
  LET open(rsp) == <<Cmd("openBox", folderName, rsp)>>
      flag(rsp) == <<Cmd("addFlags", "\\Deleted", rsp)>>
      expunge(rsp) == <<Cmd("expunge", "", rsp)>>
  IN CASE res = "not_connected" -> << >>
       [] res = "open_err" -> open("err")
       [] res = "flag_err" -> open("ok") \o flag("err")
       [] res = "expunge_err" -> open("ok") \o flag("ok") \o expunge("err")
       [] OTHER -> open("ok") \o flag("ok") \o expunge("ok")

\* opens the folder, adds \Deleted, expunges; each step only after the one before
deleteEmail(emailId, folderName, res) ==
  LET w == DeleteCommands(folderName, res)
  IN /\ res \in DeleteOutcomes(folderName)
     /\ wire' = w
     /\ flagged' = IF Done(w, "addFlags") /\ InBox(emailId, folderName)
                   THEN flagged \cup {emailId} ELSE flagged
     /\ expunged' = IF Done(w, "expunge") /\ InBox(emailId, folderName)
                    THEN expunged \cup {emailId} ELSE expunged
     /\ calls' = Append(calls, Call("deleteEmail", emailId, folderName, res))

(***************************************************************************)
(* main(): the first pass, one message per iteration.                      *)
(***************************************************************************)
\* mutant: the Advertising label is never added
P1AfterClassifyNoAdvertising(result) == "p1proc"

\* mutant: the Advertising label is gated by the confidence threshold
P1AfterClassifyGated(result) ==
  IF result.isAdvertising /\ result.confidence > classificationConfidenceThreshold
  THEN "p1adv" ELSE "p1proc"

\* if (result.isAdvertising) { addLabel(Advertising) }, then the Processed label
P1AfterClassify(result) == IF result.isAdvertising THEN "p1adv" ELSE "p1proc"

\* mutant: a rejected addLabel is not caught per message and reaches main's catch
P1AfterAddLabelRethrow(res, next) == IF res = "ok" THEN next ELSE "finally"

\* the catch of a per-message try: log, and go on with the statement after it
P1AfterAddLabel(res, next) == next

\* the for-of loop: the next message, or the summary and the second pass
LoopNext(i, emails, loop, after) == IF i > Len(emails) THEN after ELSE loop

Bump(c, field, n) == [c EXCEPT ![field] = @ + n]

\* const result = await classifier.classifyEmail(email)
P1Classify ==
  /\ pc = "p1"
  /\ LET email == inboxEmails[idx]
     IN \E reply \in Replies :
          LET result == classifyEmail(reply)
          IN /\ results' = [results EXCEPT ![email.id] =
                              [kind |-> ReplyShape(reply),
                               isAdvertising |-> result.isAdvertising,
                               confidence |-> result.confidence]]
             /\ pc' = P1AfterClassify(result)
  /\ UNCHANGED <<cfgVars, sideVars, mailVars, sessVars, run, inboxEmails, advEmails, idx,
                 branch, counts, summaries, calls, labelsAtStart, wire>>

\* try { await imapService.addLabel(email.id, ADVERTISING_LABEL); advertisingCount++ }
P1AddAdvertising ==
  /\ pc = "p1adv"
  /\ \E res \in {"ok", "err", "not_connected"} :
       /\ addLabel(inboxEmails[idx].id, ADVERTISING_LABEL, res)
       /\ counts' = Bump(counts, "advertisingCount", IF res = "ok" THEN 1 ELSE 0)
       /\ pc' = P1AfterAddLabel(res, "p1proc")
  /\ UNCHANGED <<cfgVars, sideVars, folder, age, seen, dateHeader, flagged, expunged, sessVars, run, inboxEmails,
                 advEmails, idx, results, branch, summaries, labelsAtStart>>

\* try { await imapService.addLabel(email.id, PROCESSED_LABEL); notAdvertisingCount++ }
\* processedCount++
P1AddProcessed ==
  /\ pc = "p1proc"
  /\ \E res \in {"ok", "err", "not_connected"} :
       /\ addLabel(inboxEmails[idx].id, PROCESSED_LABEL, res)
       /\ counts' = Bump(Bump(counts, "notAdvertisingCount", IF res = "ok" THEN 1 ELSE 0),
                         "processedCount", 1)
       /\ pc' = P1AfterAddLabel(res, LoopNext(idx + 1, inboxEmails, "p1", "sum1"))
  /\ idx' = idx + 1
  /\ UNCHANGED <<cfgVars, sideVars, folder, age, seen, dateHeader, flagged, expunged, sessVars, run, inboxEmails,
                 advEmails, results, branch, summaries, labelsAtStart>>

\* after the loop: console.log('First Pass Summary:') and the four counts
P1Summary ==
  /\ pc = "sum1"
  /\ summaries' = Append(summaries, [pass |-> 1, counts |-> counts])
  /\ pc' = "fetch2"
  /\ UNCHANGED <<cfgVars, sideVars, mailVars, sessVars, run, inboxEmails, advEmails, idx,
                 results, branch, counts, calls, labelsAtStart, wire>>

(***************************************************************************)
(* main(): the second pass, one message per iteration.                     *)
(***************************************************************************)
\* mutant: the comparison is strict
ShouldDeleteStrict(email) == email.ageInDays > DELETE_FROM_ADVERTISING_DAYS

\* mutant: every fetched message takes the delete branch
ShouldDeleteAlways(email) == TRUE

\* if (email.ageInDays >= DELETE_FROM_ADVERTISING_DAYS)
ShouldDelete(email) == email.ageInDays >= DELETE_FROM_ADVERTISING_DAYS

\* mutant: the dry-run flag is not consulted
CallsDeleteAlways == TRUE

\* if (!DRY_RUN) { await imapService.deleteEmail(...) }
CallsDelete == ~DRY_RUN

\* mutant: a rejected deleteEmail is not caught per message and reaches main's catch
P2AfterDeleteRethrow(res, next) == IF res = "ok" THEN next ELSE "finally"

\* the catch of the per-message try: log, and go on with the next message
P2AfterDelete(res, next) == next

\* mutant: only a delete that was carried out is counted
DeletedBumpLiveOnly(res) == IF res = "ok" THEN 1 ELSE 0

\* mutant: deletedCount++ stands after the try block
DeletedBumpAlways(res) == 1

\* deletedCount++ at the end of the try block: reached when deleteEmail resolved,
\* and in a dry run ("dry"), where it is not called
DeletedBump(res) == IF res \in {"ok", "dry"} THEN 1 ELSE 0

\* try { await imapService.deleteEmail(email.id, ADVERTISING_LABEL); deletedCount++ }
P2Delete ==
  /\ pc = "p2"
  /\ ShouldDelete(advEmails[idx])
  /\ CallsDelete
  /\ \E res \in {"ok", "open_err", "flag_err", "expunge_err", "not_connected"} :
       /\ deleteEmail(advEmails[idx].id, ADVERTISING_LABEL, res)
       /\ counts' = Bump(counts, "deletedCount", DeletedBump(res))
       /\ pc' = P2AfterDelete(res, LoopNext(idx + 1, advEmails, "p2", "sum2"))
  /\ branch' = [branch EXCEPT ![advEmails[idx].id] = "delete"]
  /\ idx' = idx + 1
  /\ UNCHANGED <<cfgVars, sideVars, boxes, folder, age, seen, dateHeader, labels, sessVars, run, inboxEmails,
                 advEmails, results, summaries, labelsAtStart>>

\* try { console.log('(Dry run - no deletion performed)'); deletedCount++ }
P2WouldDelete ==
  /\ pc = "p2"
  /\ ShouldDelete(advEmails[idx])
  /\ ~CallsDelete
  /\ counts' = Bump(counts, "deletedCount", DeletedBump("dry"))
  /\ branch' = [branch EXCEPT ![advEmails[idx].id] = "delete"]
  /\ idx' = idx + 1
  /\ pc' = LoopNext(idx + 1, advEmails, "p2", "sum2")
  /\ UNCHANGED <<cfgVars, sideVars, mailVars, sessVars, run, inboxEmails, advEmails, results,
                 summaries, calls, labelsAtStart, wire>>

P2Skip ==
  /\ pc = "p2"
  /\ ~ShouldDelete(advEmails[idx])
  /\ counts' = Bump(counts, "skippedDeletionCount", 1)
  /\ branch' = [branch EXCEPT ![advEmails[idx].id] = "skip"]
  /\ idx' = idx + 1
  /\ pc' = LoopNext(idx + 1, advEmails, "p2", "sum2")
  /\ UNCHANGED <<cfgVars, sideVars, mailVars, sessVars, run, inboxEmails, advEmails, results,
                 summaries, calls, labelsAtStart, wire>>

\* mutant: the summary is left out when a delete failed
P2SummaryUnlessFailed ==
  /\ pc = "sum2"
  /\ summaries' = IF \E i \in 1..Len(calls) :
                       calls[i].op = "deleteEmail" /\ calls[i].res # "ok"
                  THEN summaries
                  ELSE Append(summaries, [pass |-> 2, counts |-> counts])
  /\ pc' = "finally"
  /\ UNCHANGED <<cfgVars, sideVars, mailVars, sessVars, run, inboxEmails, advEmails, idx,
                 results, branch, counts, calls, labelsAtStart, wire>>

\* after the loop: console.log('Second Pass Summary:') and the three counts
P2Summary ==
  /\ pc = "sum2"
  /\ summaries' = Append(summaries, [pass |-> 2, counts |-> counts])
  /\ pc' = "finally"
  /\ UNCHANGED <<cfgVars, sideVars, mailVars, sessVars, run, inboxEmails, advEmails, idx,
                 results, branch, counts, calls, labelsAtStart, wire>>

(***************************************************************************)
(* The specification.                                                      *)
(***************************************************************************)
Orchestrator ==
  \/ EnsureAdvertising
  \/ EnsureProcessed
  \/ FetchInbox
  \/ P1Classify
  \/ P1AddAdvertising
  \/ P1AddProcessed
  \/ P1Summary
  \/ FetchAdvertising
  \/ P2Delete
  \/ P2WouldDelete
  \/ P2Skip
  \/ P2Summary
  \/ Disconnect

Transport == EvReady \/ EvError \/ EvEnd

Next == ExitNoApiKey \/ StartRun \/ Orchestrator \/ Transport

\* one run of the program
Spec == Init /\ [][Next]_vars

\* runs of the program in succession on the same mailbox
RunsNext == Next \/ Restart

\* the scenario of the lifecycle: DRY_RUN set explicitly, the default threshold,
\* messages a day under and a day over it
RunsInit ==
  /\ Init
  /\ envCredentials
  /\ envDeleteDays = << >>
  /\ envDryRun \in {"false", "true"}
  /\ \A m \in Msgs : age[m] # DefaultDeleteDays

RunsSpec == RunsInit /\ [][RunsNext]_vars

\* one run; the event loop runs every continuation that is ready, and the
\* transport answers connect() and end()
FairSpec == Spec /\ WF_vars(Orchestrator) /\ WF_vars(Transport)

\* one run with the event loop running, on the default threshold and with
\* the mailbox credentials set
FairInit ==
  /\ Init
  /\ envCredentials
  /\ envDeleteDays = << >>

FairRunSpec == FairInit /\ [][Next]_vars /\ WF_vars(Orchestrator) /\ WF_vars(Transport)

TypeOK ==
  /\ pc \in {"idle", "connecting", "ensureAdv", "ensureProc", "fetch1", "p1", "p1adv",
             "p1proc", "sum1", "fetch2", "p2", "sum2", "finally", "disconnecting",
             "done", "hung", "exited"}
  /\ transport \in {"idle", "connecting", "up", "ending", "down"}
  /\ connected \in BOOLEAN
  /\ run \in 0..MaxRuns

(***************************************************************************)
(* The adapter on its own: a client (the test programs, main.ts) calls the *)
(* public methods of one ImapService in any order, each call together with *)
(* the provider's answer being one action, while the transport's events    *)
(* arrive in between.                                                      *)
(***************************************************************************)
FolderNames == {ADVERTISING_LABEL, PROCESSED_LABEL}
\* options.maxAgeDays of a direct fetch: absent (0), or 60 days
FetchAges == {0, DefaultDeleteDays}
\* options.batchSize of a direct fetch: absent or 0, or a positive cap
BatchSizes == 0..NumMsgs

\* what a direct call leaves alone whatever the method
ClientFrame ==
  /\ pc = "idle"
  /\ Len(calls) < MaxCalls
  /\ UNCHANGED <<cfgVars, age, seen, dateHeader, pc, run, mainVars, labelsAtStart, batchVars, indexVars,
                 listVars>>

CallConnect ==
  /\ ClientFrame
  /\ transport # "connecting"
  /\ connect
  /\ req' = NoRequest /\ ret' = NoReturn
  /\ UNCHANGED <<boxes, folder, labels, flagged, expunged>>

CallDisconnect ==
  /\ ClientFrame
  /\ transport # "ending"
  /\ disconnect
  /\ req' = NoRequest /\ ret' = NoReturn
  /\ UNCHANGED <<boxes, folder, labels, flagged, expunged>>

CallListFolders ==
  /\ ClientFrame
  /\ \E res \in ListOutcomes :
       /\ wire' = ListCommands(res)
       /\ calls' = Append(calls, Call("listFolders", 0, "", res))
       /\ ret' = [NoReturn EXCEPT !.folders = IF res = "ok" THEN listFolders ELSE {}]
  /\ req' = NoRequest
  /\ UNCHANGED <<boxes, folder, labels, flagged, expunged, sessVars>>

CallCreateFolder ==
  /\ ClientFrame
  /\ \E folderName \in FolderNames : \E res \in CreateOutcomes(folderName) :
       /\ wire' = CreateCommands(folderName, res)
       /\ boxes' = BoxesAfter(CreateCommands(folderName, res))
       /\ calls' = Append(calls, Call("createFolder", 0, folderName, CreateResult(res)))
  /\ req' = NoRequest /\ ret' = NoReturn
  /\ UNCHANGED <<folder, labels, flagged, expunged, sessVars>>

CallEnsureFolderExists ==
  /\ ClientFrame
  /\ \E folderName \in FolderNames : \E res \in EnsureOutcomes(folderName) :
       ensureFolderExists(folderName, res)
  /\ req' = NoRequest /\ ret' = NoReturn
  /\ UNCHANGED <<folder, labels, flagged, expunged, sessVars>>

\* deleteFolder(folderName): delBox; the provider removes the box with what it holds
DeleteFolderOutcomes(folderName) ==
  IF ~connected THEN {"not_connected"}
  ELSE IF folderName \in boxes THEN {"ok", "err"} ELSE {"err"}

DeleteFolderCommands(folderName, res) ==
  IF res = "not_connected" THEN << >> ELSE <<Cmd("delBox", folderName, res)>>

deleteFolder(folderName, res) ==
  LET w == DeleteFolderCommands(folderName, res)
  IN /\ res \in DeleteFolderOutcomes(folderName)
     /\ wire' = w
     /\ boxes' = IF Done(w, "delBox") THEN boxes \ {folderName} ELSE boxes
     /\ expunged' = IF Done(w, "delBox")
                    THEN expunged \cup { m \in Msgs : folder[m] = folderName }
                    ELSE expunged
     /\ labels' = IF Done(w, "delBox") /\ isGmail
                  THEN [m \in Msgs |-> labels[m] \ {folderName}] ELSE labels
     /\ calls' = Append(calls, Call("deleteFolder", 0, folderName, res))

CallDeleteFolder ==
  /\ ClientFrame
  /\ \E folderName \in FolderNames : \E res \in {"not_connected", "ok", "err"} :
       deleteFolder(folderName, res)
  /\ req' = NoRequest /\ ret' = NoReturn
  /\ UNCHANGED <<folder, flagged, sessVars>>

CallAddLabel ==
  /\ ClientFrame
  /\ \E emailId \in Msgs : \E label \in FolderNames :
       \E res \in {"not_connected", "ok", "err"} : addLabel(emailId, label, res)
  /\ req' = NoRequest /\ ret' = NoReturn
  /\ UNCHANGED <<folder, flagged, expunged, sessVars>>

\* moveEmail(emailId, targetFolder) on a folder provider: openBox('INBOX'), move
MoveOutcomes(targetFolder) ==
  IF ~connected THEN {"not_connected"}
  ELSE IF targetFolder \in boxes THEN {"ok", "open_err", "move_err"}
  ELSE {"open_err", "move_err"}

MoveCommands(targetFolder, res) ==
  LET open(rsp) == <<Cmd("openBox", INBOX, rsp)>>
      move(rsp) == <<Cmd("move", targetFolder, rsp)>>
  IN CASE res = "not_connected" -> << >>
       [] res = "open_err" -> open("err")
       [] res = "move_err" -> open("ok") \o move("err")
       [] OTHER -> open("ok") \o move("ok")

\* mutant: the physical move on every provider
moveEmailAlwaysMove(emailId, targetFolder, res) ==
  LET w == MoveCommands(targetFolder, res)
  IN /\ res \in MoveOutcomes(targetFolder)
     /\ wire' = w
     /\ folder' = IF Done(w, "move") /\ InBox(emailId, INBOX)
                  THEN [folder EXCEPT ![emailId] = targetFolder] ELSE folder
     /\ calls' = Append(calls, Call("moveEmail", emailId, targetFolder, res))
     /\ UNCHANGED <<boxes, labels>>

\* moveEmail: on Gmail the call is addLabel(emailId, targetFolder)
moveEmail(emailId, targetFolder, res) ==
  IF isGmail
  THEN /\ addLabel(emailId, targetFolder, res)
       /\ UNCHANGED folder
  ELSE LET w == MoveCommands(targetFolder, res)
       IN /\ res \in MoveOutcomes(targetFolder)
          /\ wire' = w
          /\ folder' = IF Done(w, "move") /\ InBox(emailId, INBOX)
                       THEN [folder EXCEPT ![emailId] = targetFolder] ELSE folder
          /\ calls' = Append(calls, Call("moveEmail", emailId, targetFolder, res))
          /\ UNCHANGED <<boxes, labels>>

CallMoveEmail ==
  /\ ClientFrame
  /\ \E emailId \in Msgs : \E targetFolder \in FolderNames :
       \E res \in {"not_connected", "ok", "err", "open_err", "move_err"} :
          moveEmail(emailId, targetFolder, res)
  /\ req' = NoRequest /\ ret' = NoReturn
  /\ UNCHANGED <<flagged, expunged, sessVars>>

CallFetchEmails ==
  /\ ClientFrame
  /\ \E folderName \in {INBOX, ADVERTISING_LABEL} :
       \E maxAgeDays \in FetchAges : \E batchSize \in BatchSizes :
         \E includeRead \in BOOLEAN : \E includeUnread \in BOOLEAN :
           LET options == FetchOptions(maxAgeDays, batchSize, includeRead, includeUnread)
               ids == LimitedResults(folderName, options)
           IN \E res \in {"not_connected", "err", "all", "none", "partial"} :
                /\ fetchEmails(folderName, options, ids, res)
                /\ req' = options
                /\ ret' = [NoReturn EXCEPT !.emails = FetchValue(ids, res)]
  /\ UNCHANGED <<mailVars, sessVars>>

CallDeleteEmail ==
  /\ ClientFrame
  /\ \E emailId \in Msgs : \E folderName \in {INBOX, ADVERTISING_LABEL} :
       \E res \in {"not_connected", "ok", "open_err", "flag_err", "expunge_err"} :
          deleteEmail(emailId, folderName, res)
  /\ req' = NoRequest /\ ret' = NoReturn
  /\ UNCHANGED <<boxes, folder, labels, sessVars>>

Client ==
  \/ CallConnect
  \/ CallDisconnect
  \/ CallListFolders
  \/ CallCreateFolder
  \/ CallEnsureFolderExists
  \/ CallDeleteFolder
  \/ CallAddLabel
  \/ CallMoveEmail
  \/ CallFetchEmails
  \/ CallDeleteEmail

ServiceNext == Client \/ Transport

\* the environment main.ts reads plays no part; one message below the age of the
\* direct fetches and one above it
\* the Date headers of the direct fetches: all parsing, one missing, one that
\* does not parse
HeaderCases ==
  AllValid \cup { [m \in Msgs |-> IF m = 1 THEN "valid" ELSE "missing"],
                  [m \in Msgs |-> IF m = 1 THEN "unparsable" ELSE "valid"] }

ServiceInit ==
  /\ InitAt(Ages, HeaderCases)
  /\ envApiKey /\ envCredentials
  /\ envDryRun = "absent"
  /\ envDeleteDays = << >>
  /\ age = [m \in Msgs |-> IF m = 1 THEN 59 ELSE 61]

ServiceSpec == ServiceInit /\ [][ServiceNext]_vars

(***************************************************************************)
(* OpenAIClassifier.classifyBatch(emails): windows of concurrencyLimit     *)
(* classifyEmail calls, Promise.all on each window, a timer between two    *)
(* windows.  Emails are numbered 1..batchLen; classifyEmail never rejects. *)
(***************************************************************************)
\* emails.slice(i, i + concurrencyLimit), as indexes
BatchWindow(i, n) == { j \in 1..n : i < j /\ j <= i + concurrencyLimit }

\* mutant: the delay is not skipped after the last window
NeedsDelayAlways(i, n) == TRUE

\* if (i + concurrencyLimit < emails.length)
NeedsDelay(i, n) == i + concurrencyLimit < n

\* for (...; i < emails.length; ...): the next window, or return results
BatchLoop(i, n) == IF i < n THEN "window" ELSE "done"

BatchFrame ==
  UNCHANGED <<cfgVars, mailVars, sessVars, pc, run, mainVars, calls, labelsAtStart,
              wire, svcVars, indexVars, listVars>>

\* classifyBatch(emails) is called
BatchStart ==
  /\ batchPc = "idle"
  /\ \E n \in 0..MaxBatch :
       /\ batchLen' = n
       /\ batchPc' = BatchLoop(0, n)
  /\ batchI' = 0
  /\ inFlight' = {}
  /\ batchResults' = {}
  /\ answers' = [j \in {} |-> FailedReply]
  /\ batchValues' = [j \in {} |-> DefaultResult]
  /\ delays' = 0
  /\ BatchFrame

\* batch.map(email => this.classifyEmail(email).then(...)): every call of the
\* window is started
StartWindow ==
  /\ batchPc = "window"
  /\ inFlight' = BatchWindow(batchI, batchLen)
  /\ batchPc' = "await"
  /\ UNCHANGED <<batchLen, batchI, batchResults, answers, batchValues, delays>>
  /\ BatchFrame

\* mutant: a classification that failed rejects, and its .then never runs
ResolveCallDropsFailed ==
  /\ batchPc = "await"
  /\ \E j \in inFlight : \E reply \in BatchReplies :
       /\ inFlight' = inFlight \ {j}
       /\ answers' = MapSet(answers, j, reply)
       /\ IF reply.kind = "object" /\ ValidFormat(reply.obj)
          THEN /\ batchResults' = batchResults \cup {j}
               /\ batchValues' = MapSet(batchValues, j, classifyEmail(reply))
          ELSE UNCHANGED <<batchResults, batchValues>>
  /\ UNCHANGED <<batchLen, batchI, batchPc, delays>>
  /\ BatchFrame

\* one classifyEmail call resolves, with the verdict or with the default of its
\* catch block: results.set(email.id, result)
ResolveCall ==
  /\ batchPc = "await"
  /\ \E j \in inFlight : \E reply \in BatchReplies :
       /\ inFlight' = inFlight \ {j}
       /\ answers' = MapSet(answers, j, reply)
       /\ batchResults' = batchResults \cup {j}
       /\ batchValues' = MapSet(batchValues, j, classifyEmail(reply))
  /\ UNCHANGED <<batchLen, batchI, batchPc, delays>>
  /\ BatchFrame

\* await Promise.all(batchPromises) resolves
WindowDone ==
  /\ batchPc = "await"
  /\ inFlight = {}
  /\ IF NeedsDelay(batchI, batchLen)
     THEN /\ batchPc' = "delay"
          /\ batchI' = batchI
     ELSE /\ batchPc' = BatchLoop(batchI + concurrencyLimit, batchLen)
          /\ batchI' = batchI + concurrencyLimit
  /\ UNCHANGED <<batchLen, inFlight, batchResults, answers, batchValues, delays>>
  /\ BatchFrame

\* the setTimeout of the pacing delay fires
DelayElapsed ==
  /\ batchPc = "delay"
  /\ delays' = delays + 1
  /\ batchI' = batchI + concurrencyLimit
  /\ batchPc' = BatchLoop(batchI + concurrencyLimit, batchLen)
  /\ UNCHANGED <<batchLen, inFlight, batchResults, answers, batchValues>>
  /\ BatchFrame

BatchNext == BatchStart \/ StartWindow \/ ResolveCall \/ WindowDone \/ DelayElapsed

\* the mailbox and the session play no part
BatchInit ==
  /\ Init
  /\ envApiKey /\ envCredentials
  /\ ~isGmail
  /\ envDryRun = "absent"
  /\ envDeleteDays = << >>
  /\ boxes = {}
  /\ folder = [m \in Msgs |-> INBOX]
  /\ age = [m \in Msgs |-> 59]

BatchSpec == BatchInit /\ [][BatchNext]_vars

\* the event loop keeps running: a started request settles (the client library
\* times a request out), a timer fires, a resolved promise is continued
FairBatchSpec == BatchSpec /\ WF_vars(BatchNext)

(***************************************************************************)
(* index.ts: the second entry point.  connect, listFolders, createFolder   *)
(* and fetchEmails are awaited one after the other; moveEmail of the first *)
(* fetched email is started inside emails.forEach and not awaited, so the  *)
(* finally block calls disconnect() in the same turn of the event loop.    *)
(* A call is one step when it starts (the commands it issues, the          *)
(* provider's answer) and one when its promise settles.                    *)
(***************************************************************************)
\* const adFolder = 'Advertising'
adFolder == "Advertising"
\* fetchEmails({ maxAgeDays: 30, batchSize: 10, ... })
IndexMaxAgeDays == 30
IndexBatchSize == 10
\* message ages, in days, around the age the fetch of index.ts asks for
IndexAges == {29, 31}

IndexFrame ==
  UNCHANGED <<cfgVars, age, seen, dateHeader, pc, run, mainVars, labelsAtStart, batchVars, listVars>>

\* a call that throws 'Not connected' returns a promise that is already rejected
Started(op, res) == IF res \in {"not_connected", "noop"} THEN pending ELSE pending \cup {op}

\* await imapService.connect()
IxConnect ==
  /\ ixPc = "idle"
  /\ connect
  /\ pending' = Started("connect", IF connectCommands = << >> THEN "noop" ELSE "sent")
  /\ ixPc' = "connecting"
  /\ UNCHANGED <<boxes, folder, labels, flagged, expunged, svcVars>>
  /\ IndexFrame

\* 'ready': connect() resolves
IxEvReady ==
  /\ ixPc # "idle"
  /\ transport = "connecting"
  /\ transport' = "up"
  /\ connected' = TRUE
  /\ lastEvent' = "ready"
  /\ pending' = pending \ {"connect"}
  /\ ixPc' = IF ixPc = "connecting" THEN "list" ELSE ixPc
  /\ UNCHANGED <<boxes, folder, labels, flagged, expunged, svcVars, calls, wire>>
  /\ IndexFrame

\* 'error': a pending connect() rejects
IxEvError ==
  /\ ixPc # "idle"
  /\ transport \in {"connecting", "up"}
  /\ transport' = "down"
  /\ connected' = FALSE
  /\ lastEvent' = "error"
  /\ pending' = pending \ {"connect"}
  /\ ixPc' = IF ixPc = "connecting" THEN "finally" ELSE ixPc
  /\ UNCHANGED <<boxes, folder, labels, flagged, expunged, svcVars, calls, wire>>
  /\ IndexFrame

\* 'end': a pending disconnect() resolves
IxEvEnd ==
  /\ ixPc # "idle"
  /\ transport \in {"up", "ending"}
  /\ transport' = "down"
  /\ connected' = FALSE
  /\ lastEvent' = "end"
  /\ pending' = pending \ {"disconnect"}
  /\ ixPc' = IF ixPc = "disconnecting" THEN "done" ELSE ixPc
  /\ UNCHANGED <<boxes, folder, labels, flagged, expunged, svcVars, calls, wire>>
  /\ IndexFrame

\* const folders = await imapService.listFolders()
IxListFolders ==
  /\ ixPc = "list"
  /\ \E res \in ListOutcomes :
       /\ wire' = ListCommands(res)
       /\ calls' = Append(calls, Call("listFolders", 0, "", res))
       /\ ret' = [NoReturn EXCEPT !.folders = IF res = "ok" THEN listFolders ELSE {}]
       /\ pending' = Started("listFolders", res)
  /\ ixPc' = "listing"
  /\ UNCHANGED <<boxes, folder, labels, flagged, expunged, sessVars, req>>
  /\ IndexFrame

\* await imapService.createFolder(adFolder)
IxCreateFolder ==
  /\ ixPc = "create"
  /\ \E res \in CreateOutcomes(adFolder) :
       /\ wire' = CreateCommands(adFolder, res)
       /\ boxes' = BoxesAfter(CreateCommands(adFolder, res))
       /\ calls' = Append(calls, Call("createFolder", 0, adFolder, CreateResult(res)))
       /\ pending' = Started("createFolder", res)
  /\ ixPc' = "creating"
  /\ UNCHANGED <<folder, labels, flagged, expunged, sessVars, svcVars>>
  /\ IndexFrame

\* const emails = await imapService.fetchEmails({...})
IxFetchEmails ==
  /\ ixPc = "fetch"
  /\ LET options == FetchOptions(IndexMaxAgeDays, IndexBatchSize, TRUE, TRUE)
         ids == LimitedResults(INBOX, options)
     IN \E res \in {"not_connected", "err", "all", "none", "partial"} :
          /\ fetchEmails(INBOX, options, ids, res)
          /\ req' = options
          /\ ret' = [NoReturn EXCEPT !.emails = FetchValue(ids, res)]
          /\ pending' = Started("fetchEmails", res)
  /\ ixPc' = "fetching"
  /\ UNCHANGED <<boxes, folder, labels, flagged, expunged, sessVars>>
  /\ IndexFrame

\* where main() of index.ts continues when an awaited call has settled; a
\* rejection reaches the catch, and then the finally
IxAfter(at, res, emails) ==
  CASE at = "listing" -> IF res = "ok" THEN "create" ELSE "finally"
    [] at = "creating" -> IF res = "ok" THEN "fetch" ELSE "finally"
    [] OTHER -> IF res \in {"all", "none"} /\ Len(emails) > 0 THEN "forEach" ELSE "finally"

\* the promise of the awaited call settles (that of a fetch the provider
\* delivered only in part never does)
IxSettle ==
  /\ ixPc \in {"listing", "creating", "fetching"}
  /\ LET last == calls[Len(calls)]
     IN /\ last.res # "partial"
        /\ pending' = pending \ {last.op}
        /\ ixPc' = IxAfter(ixPc, last.res, ret.emails)
  /\ UNCHANGED <<boxes, folder, labels, flagged, expunged, sessVars, svcVars, calls, wire>>
  /\ IndexFrame

\* emails.forEach(...): if (email === emails[0]) imapService.moveEmail(email.id,
\* adFolder).then(...).catch(...), not awaited; the try block ends
IxMoveFirst ==
  /\ ixPc = "forEach"
  /\ \E res \in {"not_connected", "ok", "err", "open_err", "move_err"} :
       /\ moveEmail(ret.emails[1].id, adFolder, res)
       /\ pending' = Started("moveEmail", res)
  /\ ixPc' = "finally"
  /\ UNCHANGED <<flagged, expunged, sessVars, svcVars>>
  /\ IndexFrame

\* the promise of the moveEmail call settles: not before the turn that started
\* it, and disconnect() after it, has ended
IxMoveSettled ==
  /\ ixPc \in {"disconnecting", "done"}
  /\ "moveEmail" \in pending
  /\ pending' = pending \ {"moveEmail"}
  /\ UNCHANGED <<boxes, folder, labels, flagged, expunged, sessVars, svcVars, calls, wire,
                 ixPc>>
  /\ IndexFrame

\* finally { await imapService.disconnect() }
IxDisconnect ==
  /\ ixPc = "finally"
  /\ disconnect
  /\ pending' = Started("disconnect", IF disconnectCommands = << >> THEN "noop" ELSE "end")
  /\ ixPc' = IF disconnectCommands = << >> THEN "done" ELSE "disconnecting"
  /\ UNCHANGED <<boxes, folder, labels, flagged, expunged, svcVars>>
  /\ IndexFrame

IndexNext ==
  \/ IxConnect
  \/ IxEvReady
  \/ IxEvError
  \/ IxEvEnd
  \/ IxListFolders
  \/ IxCreateFolder
  \/ IxFetchEmails
  \/ IxSettle
  \/ IxMoveFirst
  \/ IxMoveSettled
  \/ IxDisconnect

\* the environment main.ts reads plays no part
IndexInit ==
  /\ InitAt(IndexAges, AllValid)
  /\ envApiKey /\ envCredentials
  /\ envDryRun = "absent"
  /\ envDeleteDays = << >>

IndexSpec == IndexInit /\ [][IndexNext]_vars

(***************************************************************************)
(* listFolders on the boxes the provider reports: the callback of getBoxes *)
(* on a connected session, for every boxes object of up to MaxBoxes        *)
(* top-level boxes, each with at most one child.                           *)
(***************************************************************************)
\* names a provider may report: empty, blank, plain, ending in a slash, and
\* under the [Gmail]/ prefix
BoxNames == { << >>, <<" ">>, <<"A">>, <<"A", "/">>, Chars_Gmail \o <<"A">> }

\* boxes without children, with a name or without one
Leaves == { Box(TRUE, n, << >>) : n \in BoxNames } \cup { Box(FALSE, << >>, << >>) }

TopBoxes ==
  { Box(b.hasName, b.name, c) : b \in Leaves, c \in {<< >>} \cup { <<l>> : l \in Leaves } }

\* Object.values(boxes)
Trees == UNION { [1..n -> TopBoxes] : n \in 0..MaxBoxes }

ListFrame ==
  UNCHANGED <<cfgVars, mailVars, sessVars, pc, run, mainVars, calls, labelsAtStart, wire,
              svcVars, batchVars, indexVars>>

\* getBoxes calls back with the boxes: resolve(validFolders)
GetBoxesAnswered ==
  /\ listed = NotListed
  /\ listed' = Resolved(ListingOf(reported))
  /\ UNCHANGED reported
  /\ ListFrame

\* getBoxes calls back with an error: reject(...)
GetBoxesFailed ==
  /\ listed = NotListed
  /\ listed' = Rejected
  /\ UNCHANGED reported
  /\ ListFrame

ListingNext == GetBoxesAnswered \/ GetBoxesFailed

\* the mailbox and the environment play no part
ListingInit ==
  /\ InitWith({59}, AllValid, Trees)
  /\ envApiKey /\ envCredentials
  /\ envDryRun = "absent"
  /\ envDeleteDays = << >>
  /\ boxes = {}
  /\ folder = [m \in Msgs |-> INBOX]

ListingSpec == ListingInit /\ [][ListingNext]_vars

(***************************************************************************)
(* Vocabulary of the properties.                                           *)
(***************************************************************************)
Pass1Pcs == {"p1", "p1adv", "p1proc"}
Pass2Over == {"finally", "disconnecting", "done"}

\* the first fetch has resolved
Fetched1 == inboxEmails # NotFetched
\* the second fetch has resolved
Fetched2 == advEmails # NotFetched
\* the first pass has been left
Pass1Finished == Fetched1 /\ pc \notin Pass1Pcs
\* the second pass's loop has run to its end
Pass2Finished == Fetched2 /\ pc \in Pass2Over /\ idx > Len(advEmails)

\* the messages that carried Processed when the run started
processedAtStart == { m \in Msgs : PROCESSED_LABEL \in labelsAtStart[m] }

\* the messages that carried both lifecycle labels when the run started
labeledAtStart ==
  { m \in Msgs : {ADVERTISING_LABEL, PROCESSED_LABEL} \subseteq labelsAtStart[m] }

Tried(m, label) ==
  \E i \in 1..Len(calls) :
     calls[i].op = "addLabel" /\ calls[i].id = m /\ calls[i].arg = label

Succeeded(m, label) ==
  \E i \in 1..Len(calls) :
     /\ calls[i].op = "addLabel" /\ calls[i].id = m /\ calls[i].arg = label
     /\ calls[i].res = "ok"

DeleteCalls == { i \in 1..Len(calls) : calls[i].op = "deleteEmail" }

InboxIds == { inboxEmails[i].id : i \in 1..Len(inboxEmails) }
AdvIds == { advEmails[i].id : i \in 1..Len(advEmails) }

\* the messages of the first fetch classified advertising above the threshold
ConfidentAdvertising ==
  { m \in InboxIds : /\ results[m].isAdvertising
                     /\ results[m].confidence > classificationConfidenceThreshold }

\* the messages of the first fetch whose reply was malformed or whose call failed
BadReply == { m \in InboxIds : results[m].kind \in {"malformed", "failed"} }

\* the entries of the second fetch the loop has gone through
P2Seen == IF Fetched2 THEN { i \in 1..Len(advEmails) : i < idx } ELSE {}

C3_NoRelabel ==
  isGmail =>
    /\ Fetched1 => InboxIds \cap processedAtStart = {}
    /\ \A i \in 1..Len(calls) :
         calls[i].op = "addLabel" => calls[i].id \notin processedAtStart

C3_Witness ==
  /\ isGmail
  /\ run = 2
  /\ processedAtStart # {}
  /\ Fetched1
  /\ InboxIds # {}
  /\ pc = "done"

(***************************************************************************)
(* C4.  In Pass 2 a fetched message whose ageInDays equals the deletion    *)
(* threshold takes the delete branch, one whose ageInDays is the threshold *)
(* minus one takes the skip branch, and skipped-for-age counts the         *)
(* messages below the threshold that the loop has gone through.            *)
(***************************************************************************)
C4_Boundary ==
  /\ \A i \in P2Seen :
       /\ advEmails[i].ageInDays = DELETE_FROM_ADVERTISING_DAYS
            => branch[advEmails[i].id] = "delete"
       /\ advEmails[i].ageInDays = DELETE_FROM_ADVERTISING_DAYS - 1
            => branch[advEmails[i].id] = "skip"
  /\ counts.skippedDeletionCount =
       Cardinality({ i \in P2Seen : branch[advEmails[i].id] = "skip" })

C4_Witness ==
  /\ \E i \in P2Seen :
       /\ advEmails[i].ageInDays = DELETE_FROM_ADVERTISING_DAYS
       /\ branch[advEmails[i].id] = "delete"
  /\ \E i \in P2Seen :
       /\ advEmails[i].ageInDays = DELETE_FROM_ADVERTISING_DAYS - 1
       /\ branch[advEmails[i].id] = "skip"
  /\ counts.skippedDeletionCount = 1

(***************************************************************************)
(* C5.  With dry-run enabled no deleteEmail call is issued and no message  *)
(* is flagged deleted or expunged; every message at or above the threshold *)
(* that the loop has gone through is counted as "would delete", and a      *)
(* further fetch of the Advertising location with the same criteria still  *)
(* returns it.                                                             *)
(***************************************************************************)
C5_DryRun ==
  DRY_RUN =>
    /\ DeleteCalls = {}
    /\ flagged = {} /\ expunged = {}
    /\ counts.deletedCount =
         Cardinality({ i \in P2Seen :
                         advEmails[i].ageInDays >= DELETE_FROM_ADVERTISING_DAYS })
    /\ \A i \in P2Seen :
         advEmails[i].ageInDays >= DELETE_FROM_ADVERTISING_DAYS =>
           advEmails[i].id \in
             Range(LimitedResults(ADVERTISING_LABEL, MainOptions))

C5_Witness ==
  /\ DRY_RUN
  /\ Pass2Finished
  /\ pc = "done"
  /\ counts.deletedCount = 2

(***************************************************************************)
(* C6 (as stated).  The Pass 2 fetch returns every message currently in    *)
(* the Advertising location (within the age ceiling and the batch cap), on *)
(* both providers: on Gmail also a message that carries both Advertising   *)
(* and Processed.  Stated of the state right after the fetch delivered     *)
(* all it matched.                                                         *)
(***************************************************************************)
C6_AsStated ==
  (/\ Len(calls) > 0
   /\ calls[Len(calls)] = Call("fetchEmails", 0, ADVERTISING_LABEL, "all"))
  => AdvIds = { m \in Msgs : /\ InBox(m, ADVERTISING_LABEL)
                             /\ age[m] <= MAX_EMAIL_AGE_DAYS }

(***************************************************************************)
(* C7 (as stated).  A message that an earlier run's Pass 1 labeled         *)
(* Advertising and Processed is deleted by the Pass 2 of a later run with  *)
(* dry-run off when its age is at or above the threshold and no delete     *)
(* call for it failed.  (The claim adds that below the threshold the       *)
(* message is retained and counted as skipped; the deletion is the part    *)
(* stated here.)                                                           *)
(***************************************************************************)
C7_AsStated ==
  (run >= 2 /\ ~DRY_RUN /\ Pass2Finished) =>
    \A m \in labeledAtStart :
       (/\ age[m] >= DELETE_FROM_ADVERTISING_DAYS
        /\ \A i \in DeleteCalls : calls[i].id = m => calls[i].res = "ok")
       => m \in expunged

(***************************************************************************)
(* C8 (as stated).  When DRY_RUN is absent from the environment the run    *)
(* is a dry run: no deleteEmail call is issued and no message is flagged   *)
(* deleted or expunged.                                                    *)
(***************************************************************************)
C8_AsStated ==
  envDryRun = "absent" => (DeleteCalls = {} /\ flagged = {} /\ expunged = {})

(***************************************************************************)
(* C9 (as stated).  Every run that has started eventually calls            *)
(* disconnect() and terminates with the session not connected.             *)
(***************************************************************************)
C9_AsStated ==
  (pc \notin {"idle", "done", "exited"}) ~>
     (/\ pc = "done"
      /\ ~connected
      /\ \E i \in 1..Len(calls) : calls[i].op = "disconnect")

\* message m went through the whole body of the Pass 1 loop
P1Handled(m) ==
  /\ results[m].kind # "none"
  /\ Tried(m, PROCESSED_LABEL)
  /\ results[m].isAdvertising => Tried(m, ADVERTISING_LABEL)

(***************************************************************************)
(* C10.  Once the first fetch has resolved, every fetched message is       *)
(* classified and has its Processed addLabel attempted, and its            *)
(* Advertising addLabel attempted when it was classified advertising,      *)
(* whatever the outcome of any addLabel call: inside the loop this holds   *)
(* of every message before the current one, after the loop of all of them, *)
(* and the loop is left only with processedCount = the number fetched.     *)
(***************************************************************************)
C10_LoopNeverAborted ==
  Fetched1 =>
    /\ \A i \in 1..Len(inboxEmails) :
         (pc \notin Pass1Pcs \/ i < idx) => P1Handled(inboxEmails[i].id)
    /\ pc \notin Pass1Pcs => counts.processedCount = Len(inboxEmails)

C10_Witness ==
  /\ Pass1Finished
  /\ Len(inboxEmails) = 2
  /\ results[inboxEmails[1].id].isAdvertising
  /\ ~Succeeded(inboxEmails[1].id, ADVERTISING_LABEL)
  /\ ~Succeeded(inboxEmails[1].id, PROCESSED_LABEL)
  /\ connected
  /\ results[inboxEmails[2].id].isAdvertising
  /\ Succeeded(inboxEmails[2].id, ADVERTISING_LABEL)
  /\ Succeeded(inboxEmails[2].id, PROCESSED_LABEL)

(***************************************************************************)
(* C11.  In Pass 2 a failed deleteEmail (open, flag or expunge step, or    *)
(* the session lost) stops nothing: once the second fetch has resolved,    *)
(* every fetched message before the current one, and after the loop every  *)
(* fetched message, has taken its branch; and deletedCount counts the      *)
(* delete-branch messages whose deleteEmail call succeeded (all of them in *)
(* a dry run), never one whose call failed.                                *)
(***************************************************************************)
C11_DeleteFailureIsolated ==
  Fetched2 =>
    /\ \A i \in 1..Len(advEmails) :
         (pc # "p2" \/ i < idx) => branch[advEmails[i].id] # "none"
    /\ pc # "p2" => idx = Len(advEmails) + 1
    /\ counts.deletedCount =
         Cardinality({ i \in P2Seen :
            /\ branch[advEmails[i].id] = "delete"
            /\ (DRY_RUN \/ \E k \in DeleteCalls :
                              /\ calls[k].id = advEmails[i].id
                              /\ calls[k].res = "ok") })

C11_Witness ==
  /\ Pass2Finished
  /\ ~DRY_RUN
  /\ Len(advEmails) = 2
  /\ \E k \in DeleteCalls : calls[k].id = advEmails[1].id /\ calls[k].res = "flag_err"
  /\ \E k \in DeleteCalls : calls[k].id = advEmails[2].id /\ calls[k].res = "ok"
  /\ advEmails[2].id \in expunged
  /\ counts.deletedCount = 1

(***************************************************************************)
(* C12.  classifyEmail returns a result for every reply and never an       *)
(* error: for a transport error, an empty reply, unparsable JSON, or an    *)
(* object lacking a boolean isAdvertising, a number confidence or a string *)
(* reason it returns the default (isAdvertising false, confidence 0, the   *)
(* error reason), otherwise the fields of the reply unchanged; and the     *)
(* result main() holds for a classified message is that value.             *)
(***************************************************************************)
C12_FailSafeDefault ==
  /\ \A reply \in Replies :
       classifyEmail(reply) =
         IF ReplyShape(reply) = "wellformed"
         THEN [isAdvertising |-> reply.obj.isAdvertising.v = 1,
               confidence |-> reply.obj.confidence.v,
               reason |-> reply.obj.reason.v]
         ELSE [isAdvertising |-> FALSE, confidence |-> 0, reason |-> ErrorReason]
  /\ \A m \in Msgs :
       results[m].kind \in {"failed", "malformed"} =>
         (~results[m].isAdvertising /\ results[m].confidence = 0)
  /\ pc \in {"p1adv", "p1proc"} => results[inboxEmails[idx].id].kind # "none"

C12_Witness ==
  /\ \E m \in Msgs : results[m].kind = "failed" /\ ~results[m].isAdvertising
  /\ \E m \in Msgs : /\ results[m].kind = "wellformed"
                      /\ results[m].isAdvertising
                      /\ results[m].confidence = 90
  /\ Pass1Finished

\* the step is a call of an adapter method: it adds one entry to the log
IsCall == Len(calls') = Len(calls) + 1
\* the entry of the call the step makes
TheCall == calls'[Len(calls')]
SessionOps == {"listFolders", "createFolder", "ensureFolderExists", "deleteFolder",
               "addLabel", "moveEmail", "fetchEmails", "deleteEmail"}

(***************************************************************************)
(* C13.  A call of listFolders, createFolder, ensureFolderExists,          *)
(* deleteFolder, addLabel, moveEmail, fetchEmails or deleteEmail made      *)
(* while the session is not connected (before 'ready', after 'error' or    *)
(* 'end') fails with the not-connected error, sends no command to the      *)
(* provider and changes neither the mailbox nor the session; and no call   *)
(* of these methods, connected or not, sends a connect.                    *)
(***************************************************************************)
C13_NotConnectedFailsFast ==
  [][ (IsCall /\ TheCall.op \in SessionOps) =>
        /\ ~connected =>
             /\ TheCall.res = "not_connected"
             /\ wire' = << >>
             /\ UNCHANGED <<mailVars, sessVars>>
        /\ \A i \in 1..Len(wire') : wire'[i].cmd # "connect"
        /\ transport' = transport ]_vars

C13_Witness ==
  /\ pc = "idle"
  /\ Len(calls) = 3
  /\ calls[1] = Call("connect", 0, "", "sent")
  /\ calls[2].op = "addLabel" /\ calls[2].res = "ok"
  /\ calls[3].op = "deleteEmail" /\ calls[3].res = "not_connected"
  /\ transport = "down"
  /\ wire = << >>

(***************************************************************************)
(* C14.  connect() while connected sends no connect and leaves the session *)
(* as it is, still connected; disconnect() while not connected sends no    *)
(* end and leaves the session as it is; the connected flag is set exactly  *)
(* while the transport is up or being ended, and while the transport is up *)
(* the last connect/disconnect call that was not a no-op is a connect.     *)
(***************************************************************************)
C14_ConnectDisconnectIdempotent ==
  /\ [](/\ connected <=> transport \in {"up", "ending"}
        /\ (pc = "idle" /\ transport = "up") =>
              \E i \in 1..Len(calls) :
                 /\ calls[i] = Call("connect", 0, "", "sent")
                 /\ \A j \in (i + 1)..Len(calls) :
                      calls[j].op \in {"connect", "disconnect"} => calls[j].res = "noop")
  /\ [][ /\ (IsCall /\ TheCall.op = "connect" /\ connected) =>
             (TheCall.res = "noop" /\ wire' = << >> /\ connected' /\ UNCHANGED sessVars)
         /\ (IsCall /\ TheCall.op = "disconnect" /\ ~connected) =>
             (TheCall.res = "noop" /\ wire' = << >> /\ ~connected' /\ UNCHANGED sessVars)
       ]_vars

C14_Witness ==
  /\ pc = "idle"
  /\ calls = <<Call("connect", 0, "", "sent"), Call("connect", 0, "", "noop"),
               Call("disconnect", 0, "", "noop")>>
  /\ ~connected

(***************************************************************************)
(* C15.  A call of ensureFolderExists(name) on a connected session         *)
(* resolves without sending a create when the listing succeeds and holds   *)
(* name; resolves when the create it sends is answered "already exists";   *)
(* resolves when the create succeeds; and throws when the listing or the   *)
(* create fails in any other way.                                          *)
(***************************************************************************)
C15_EnsureTolerant ==
  [][ (IsCall /\ TheCall.op = "ensureFolderExists" /\ connected) =>
        LET w == wire'
            last == w[Len(w)]
        IN /\ Len(w) \in {1, 2}
           /\ w[1].cmd = "getBoxes"
           /\ (TheCall.arg \in listFolders /\ w[1].rsp = "ok") =>
                (Len(w) = 1 /\ TheCall.res = "ok")
           /\ Len(w) = 2 => (w[1].rsp = "ok" /\ last.cmd = "addBox")
           /\ last.rsp \in {"ok", "duplicate"} => TheCall.res = "ok"
           /\ last.rsp = "err" => TheCall.res = "err" ]_vars

C15_Witness ==
  /\ pc = "idle"
  /\ Len(calls) = 3
  /\ calls[2] = Call("ensureFolderExists", 0, PROCESSED_LABEL, "err")
  /\ calls[3] = Call("ensureFolderExists", 0, PROCESSED_LABEL, "ok")
  /\ wire = <<Cmd("getBoxes", "", "ok"), Cmd("addBox", CreateName(PROCESSED_LABEL), "duplicate")>>

(***************************************************************************)
(* C16.  Once ensureFolderExists(name) has resolved, the listing holds     *)
(* name, on Gmail and on a folder provider alike: a listFolders() called   *)
(* next on the session and answered by the provider returns name.          *)
(***************************************************************************)
C16_ListedAfterEnsure ==
  \A i \in 1..Len(calls) :
     (calls[i].op = "ensureFolderExists" /\ calls[i].res = "ok") =>
        /\ i = Len(calls) => calls[i].arg \in listFolders
        /\ (i + 1 = Len(calls) /\ calls[i + 1] = Call("listFolders", 0, "", "ok")) =>
              calls[i].arg \in ret.folders

C16_Witness ==
  /\ pc = "idle"
  /\ isGmail
  /\ calls = <<Call("connect", 0, "", "sent"),
               Call("ensureFolderExists", 0, ADVERTISING_LABEL, "ok"),
               Call("listFolders", 0, "", "ok")>>
  /\ "[Gmail]/Advertising" \in boxes
  /\ ret.folders = {ADVERTISING_LABEL}

\* requiredFolders of the earlier variant of listFolders
RequiredFolders == {"INBOX", "Sent", "Drafts", "Trash", "Spam"}

(***************************************************************************)
(* C17 (as stated).  On Gmail every listing that listFolders() returns     *)
(* holds INBOX, Sent, Drafts, Trash and Spam, whatever boxes the provider  *)
(* reported.                                                               *)
(***************************************************************************)
C17_AsStated ==
  (/\ isGmail
   /\ Len(calls) > 0
   /\ calls[Len(calls)] = Call("listFolders", 0, "", "ok"))
  => RequiredFolders \subseteq ret.folders

\* the latest call is a fetchEmails that resolved
FetchResolved ==
  /\ Len(calls) > 0
  /\ calls[Len(calls)].op = "fetchEmails"
  /\ calls[Len(calls)].res \in {"all", "none"}

(***************************************************************************)
(* C18 (as stated).  A direct fetchEmails never resolves with more         *)
(* messages than options.batchSize, batchSize 0 (or absent) included.      *)
(***************************************************************************)
C18_AsStated ==
  (pc = "idle" /\ FetchResolved) => Len(ret.emails) <= req.batchSize

(***************************************************************************)
(* C18 (amended).  A direct fetchEmails never resolves with more messages  *)
(* than options.batchSize when batchSize is positive, and never with more  *)
(* than 100 when batchSize is 0 or absent; and the messages it resolves    *)
(* with are among those its search matched.                                *)
(***************************************************************************)
C18_BatchCap ==
  (pc = "idle" /\ FetchResolved) =>
    /\ Len(ret.emails) <=
         (IF req.batchSize # 0 THEN req.batchSize ELSE DefaultBatchLimit)
    /\ { ret.emails[i].id : i \in 1..Len(ret.emails) }
         \subseteq Search(calls[Len(calls)].arg, req)

C18_Witness ==
  /\ pc = "idle"
  /\ FetchResolved
  /\ calls[Len(calls)].res = "all"
  /\ req.batchSize = 1
  /\ Len(ret.emails) = 1
  /\ Cardinality(Search(calls[Len(calls)].arg, req)) = 2

\* the provider steps of deleteEmail, in the order of the source
DeleteSteps == <<"openBox", "addFlags", "expunge">>

(***************************************************************************)
(* C19.  A call of deleteEmail(id, location) sends openBox(location), then *)
(* addFlags(\Deleted), then expunge, in this order: a step is sent only    *)
(* when every step before it succeeded, the call resolves exactly when all *)
(* three succeeded, and a call that rejects expunges no message (it may    *)
(* leave the message flagged).                                             *)
(***************************************************************************)
C19_DeleteStepsInOrder ==
  [][ (IsCall /\ TheCall.op = "deleteEmail") =>
        LET w == wire'
        IN /\ Len(w) <= 3
           /\ \A i \in 1..Len(w) : w[i].cmd = DeleteSteps[i]
           /\ \A i \in 1..(Len(w) - 1) : w[i].rsp = "ok"
           /\ connected => (Len(w) >= 1 /\ w[1].arg = TheCall.arg)
           /\ TheCall.res = "ok" <=> (Len(w) = 3 /\ w[3].rsp = "ok")
           /\ TheCall.res # "ok" => expunged' = expunged
           /\ flagged' \subseteq flagged \cup {TheCall.id}
           /\ expunged' \subseteq expunged \cup {TheCall.id} ]_vars

C19_Witness ==
  /\ pc = "idle"
  /\ Len(calls) = 3
  /\ calls[2].op = "deleteEmail" /\ calls[2].res = "expunge_err"
  /\ calls[2].id \in flagged /\ calls[2].id \notin expunged
  /\ calls[3].op = "deleteEmail" /\ calls[3].res = "ok"
  /\ calls[3].id # calls[2].id
  /\ calls[3].id \in expunged

\* the windows classifyBatch has gone through when its loop variable is i
WindowsBefore(i) == i \div concurrencyLimit
\* the windows of n emails
WindowsOf(n) == (n + concurrencyLimit - 1) \div concurrencyLimit

(***************************************************************************)
(* C20.  During classifyBatch at most 5 classifyEmail calls are in flight; *)
(* the calls in flight belong to the current window and every call of an   *)
(* earlier window has resolved before any of them started; one pacing      *)
(* delay has been waited for each window gone through, a delay is entered  *)
(* only with a further window to come, and when classifyBatch returns the  *)
(* delays number one less than the windows (none for an empty batch) and   *)
(* every email has its result.                                             *)
(***************************************************************************)
C20_WindowedBatch ==
  /\ Cardinality(inFlight) <= 5
  /\ inFlight \subseteq BatchWindow(batchI, batchLen)
  /\ batchPc \in {"window", "await", "delay"} =>
       /\ \A j \in 1..batchLen : j <= batchI => j \in batchResults
       /\ \A j \in batchResults : j <= batchI + concurrencyLimit
       /\ delays = WindowsBefore(batchI)
  /\ batchPc = "delay" =>
       (inFlight = {} /\ WindowsBefore(batchI) + 1 < WindowsOf(batchLen))
  /\ batchPc = "done" =>
       /\ batchResults = 1..batchLen
       /\ inFlight = {}
       /\ delays = IF batchLen = 0 THEN 0 ELSE WindowsOf(batchLen) - 1

C20_Witness ==
  /\ batchPc = "done"
  /\ batchLen = 11
  /\ delays = 2
  /\ batchResults = 1..11

(***************************************************************************)
(* C21 (as stated).  At every point of a run at most one mailbox operation *)
(* is outstanding on the session, and disconnect is never started while    *)
(* another mailbox operation is still in flight.  Stated of index.ts,      *)
(* whose calls are tracked from their start to the settling of their       *)
(* promise.                                                                *)
(***************************************************************************)
C21_AsStated ==
  /\ Cardinality(pending) <= 1
  /\ "disconnect" \in pending => pending = {"disconnect"}

(***************************************************************************)
(* C22 (as stated).  When the classifier API key is missing, or the        *)
(* mailbox credentials are missing, the process terminates before any      *)
(* mailbox connection is attempted: no run is started and no connect is    *)
(* sent.                                                                   *)
(***************************************************************************)
C22_AsStated ==
  (~envApiKey \/ ~envCredentials) =>
    /\ run = 0
    /\ transport = "idle"
    /\ \A i \in 1..Len(wire) : wire[i].cmd # "connect"

\* the adapter calls of the run, without their outcome
Ops == [i \in 1..Len(calls) |-> <<calls[i].op, calls[i].id, calls[i].arg>>]

IsDelete(o) == o[1] = "deleteEmail"
IsNotDelete(o) == o[1] # "deleteEmail"

RECURSIVE P1Ops(_)
\* the label operations of Pass 1 for the first n fetched messages
P1Ops(n) ==
  IF n = 0 THEN << >>
  ELSE LET m == inboxEmails[n].id
       IN P1Ops(n - 1)
          \o (IF results[m].isAdvertising
              THEN <<(<<"addLabel", m, ADVERTISING_LABEL>>)>> ELSE << >>)
          \o <<(<<"addLabel", m, PROCESSED_LABEL>>)>>

RECURSIVE P2Ops(_, _)
\* the delete operations of Pass 2 for the first n fetched messages, in a dry
\* run (dry) or a live one
P2Ops(dry, n) ==
  IF n = 0 THEN << >>
  ELSE P2Ops(dry, n - 1)
       \o (IF advEmails[n].ageInDays >= DELETE_FROM_ADVERTISING_DAYS /\ ~dry
           THEN <<(<<"deleteEmail", advEmails[n].id, ADVERTISING_LABEL>>)>> ELSE << >>)

\* the operations of a run that went through both passes, from what its two
\* fetches returned and what the classifier answered
RunOps(dry) ==
  <<(<<"ensureFolderExists", 0, ADVERTISING_LABEL>>),
    (<<"ensureFolderExists", 0, PROCESSED_LABEL>>),
    (<<"fetchEmails", 0, INBOX>>)>>
  \o P1Ops(Len(inboxEmails))
  \o <<(<<"fetchEmails", 0, ADVERTISING_LABEL>>)>>
  \o P2Ops(dry, Len(advEmails))
  \o <<(<<"disconnect", 0, "">>)>>

\* the fetched messages of Pass 2 at or above the threshold
AtOrAbove ==
  { i \in 1..Len(advEmails) : advEmails[i].ageInDays >= DELETE_FROM_ADVERTISING_DAYS }

(***************************************************************************)
(* C23.  The operations of a run depend on the dry-run flag only through   *)
(* the deleteEmail calls.  A run that went through both passes issued      *)
(* exactly the operations determined by what its fetches returned and what *)
(* the classifier answered: the sequence of a live run is that of the dry  *)
(* run on the same fetches and answers with one deleteEmail added for each *)
(* message at or above the threshold, and a dry run issues no deleteEmail. *)
(* The Pass 1 counts are those of the outcomes of the label calls, without *)
(* regard to the flag; skipped-for-age is the number of fetched messages   *)
(* below the threshold in both; and the deleted count of a live run whose  *)
(* deletes all succeeded is the number at or above it, the count a dry run *)
(* reports.                                                                *)
(***************************************************************************)
C23_DryRunDiffersByDeletes ==
  /\ SelectSeq(Ops, IsDelete) =
       (IF Fetched2 THEN P2Ops(DRY_RUN, IF pc = "p2" THEN idx - 1 ELSE Len(advEmails))
        ELSE << >>)
  /\ (pc = "done" /\ Pass2Finished) =>
       /\ Ops = RunOps(DRY_RUN)
       /\ RunOps(TRUE) = SelectSeq(RunOps(FALSE), IsNotDelete)
       /\ Len(RunOps(FALSE)) = Len(RunOps(TRUE)) + Cardinality(AtOrAbove)
       /\ counts.processedCount = Len(inboxEmails)
       /\ counts.advertisingCount =
            Cardinality({ m \in InboxIds : Succeeded(m, ADVERTISING_LABEL) })
       /\ counts.notAdvertisingCount =
            Cardinality({ m \in InboxIds : Succeeded(m, PROCESSED_LABEL) })
       /\ counts.skippedDeletionCount = Len(advEmails) - Cardinality(AtOrAbove)
       /\ (DRY_RUN \/ \A k \in DeleteCalls : calls[k].res = "ok") =>
             counts.deletedCount = Cardinality(AtOrAbove)

C23_Witness ==
  /\ pc = "done"
  /\ Pass2Finished
  /\ ~DRY_RUN
  /\ Len(inboxEmails) = 2
  /\ counts.advertisingCount = 1
  /\ Len(advEmails) = 1
  /\ Cardinality(AtOrAbove) = 1
  /\ \A k \in DeleteCalls : calls[k].res = "ok"
  /\ counts.deletedCount = 1
  /\ Len(Ops) = Len(RunOps(TRUE)) + 1

\* the provider commands that take a label, a flag, a message or a box away
Removals == {"delBox", "delLabels", "setLabels", "delFlags", "setFlags", "move"}

(***************************************************************************)
(* C24.  No step of the orchestrator, in any run, removes a label from a   *)
(* message, moves a message out of its location or removes a location: the *)
(* boxes of the provider never shrink, the label set of every message only *)
(* grows, every message stays where it lies, no deleteFolder or moveEmail  *)
(* call is made and no removing command is sent; the only messages that    *)
(* leave a location are those deleteEmail expunges.                        *)
(***************************************************************************)
C24_MembershipOnlyAdded ==
  [][ /\ boxes \subseteq boxes'
      /\ \A m \in Msgs : labels[m] \subseteq labels'[m]
      /\ folder' = folder
      /\ IsCall => TheCall.op \notin {"deleteFolder", "moveEmail"}
      /\ \A i \in 1..Len(wire') : wire'[i].cmd \notin Removals
      /\ \A m \in expunged' \ expunged :
            /\ IsCall
            /\ TheCall = Call("deleteEmail", m, ADVERTISING_LABEL, "ok") ]_vars

C24_Witness ==
  /\ run = 2
  /\ pc = "done"
  /\ {ADVERTISING_LABEL, PROCESSED_LABEL} \subseteq boxes
  /\ \E m \in Msgs : labels[m] = {ADVERTISING_LABEL, PROCESSED_LABEL} /\ m \notin expunged
  /\ \E m \in expunged : ADVERTISING_LABEL \in labels[m]

\* call i of the run is a connection-level step that failed
StepFailed(i) ==
  \/ calls[i].op = "ensureFolderExists" /\ calls[i].res # "ok"
  \/ calls[i].op = "fetchEmails" /\ calls[i].res \in {"err", "not_connected"}

\* call i of the run is a message-level call that failed
MessageCallFailed(i) ==
  /\ calls[i].op \in {"addLabel", "deleteEmail"}
  /\ calls[i].res # "ok"

\* the run has made the call op(arg), with an outcome among those of okRes
Made(op, arg, okRes) ==
  \E i \in 1..Len(calls) :
     calls[i].op = op /\ calls[i].arg = arg /\ calls[i].res \in okRes

(***************************************************************************)
(* C25.  A connection-level failure ends the work of the run.  When        *)
(* connect fails, no call but disconnect is made; when an                  *)
(* ensureFolderExists or a fetchEmails fails, the only call after it is    *)
(* disconnect and the run is in its finally block or over.  So nothing is  *)
(* classified or labeled and neither the Pass 2 fetch nor a delete is      *)
(* issued unless both locations were ensured and the Pass 1 fetch          *)
(* resolved, and no delete is issued unless the Pass 2 fetch resolved.  A  *)
(* failed addLabel or deleteEmail skips nothing: the call after it is the  *)
(* next one of the pass, and once the Pass 1 fetch has resolved the Pass 2 *)
(* fetch is issued after the loop whatever the label calls answered.       *)
(***************************************************************************)
C25_ConnectionFailureSkipsRest ==
  /\ \A i \in 1..Len(calls) :
       StepFailed(i) =>
         /\ pc \in Pass2Over
         /\ \A j \in (i + 1)..Len(calls) : calls[j].op = "disconnect"
  /\ (pc \in Pass2Over /\ \A i \in 1..Len(calls) : calls[i].op # "ensureFolderExists") =>
       \A i \in 1..Len(calls) : calls[i].op = "disconnect"
  /\ (\E i \in 1..Len(calls) : calls[i].op \in {"fetchEmails", "addLabel", "deleteEmail"})
       => /\ Made("ensureFolderExists", ADVERTISING_LABEL, {"ok"})
          /\ Made("ensureFolderExists", PROCESSED_LABEL, {"ok"})
  /\ (\/ \E m \in Msgs : results[m] # NoResult
      \/ \E i \in 1..Len(calls) :
            \/ calls[i].op \in {"addLabel", "deleteEmail"}
            \/ calls[i].op = "fetchEmails" /\ calls[i].arg = ADVERTISING_LABEL)
       => Made("fetchEmails", INBOX, {"all", "none"})
  /\ (\/ \E m \in Msgs : branch[m] # "none"
      \/ \E i \in 1..Len(calls) : calls[i].op = "deleteEmail")
       => Made("fetchEmails", ADVERTISING_LABEL, {"all"})
  /\ \A i \in 1..(Len(calls) - 1) :
       MessageCallFailed(i) =>
         IF calls[i].op = "addLabel"
         THEN calls[i + 1].op \in {"addLabel", "fetchEmails"}
         ELSE calls[i + 1].op \in {"deleteEmail", "disconnect"}
  /\ (Fetched2 /\ pc \in Pass2Over) => idx = Len(advEmails) + 1
  /\ (Fetched1 /\ pc \notin Pass1Pcs \cup {"sum1", "fetch2"}) =>
       Made("fetchEmails", ADVERTISING_LABEL, {"all", "none", "err", "not_connected", "partial"})

C25_Witness ==
  /\ pc = "done"
  /\ connected = FALSE
  /\ \E i \in 1..Len(calls) :
       /\ calls[i].op = "addLabel" /\ calls[i].res = "err"
       /\ calls[i + 1].op = "addLabel" /\ calls[i + 1].res = "ok"
  /\ calls[Len(calls) - 1] = Call("fetchEmails", 0, ADVERTISING_LABEL, "err")
  /\ \A m \in Msgs : branch[m] = "none"

(***************************************************************************)
(* C26.  Once the fetch of a pass has resolved, the summary of that pass   *)
(* is printed when its loop ends, whatever the addLabel or deleteEmail     *)
(* calls of the pass answered: the run does not leave Pass 1 without the   *)
(* first summary, whose processed count is the number of fetched messages  *)
(* and whose label counts are those of the calls that succeeded, nor       *)
(* Pass 2 without the second, whose deleted and skipped counts add up to   *)
(* the number of fetched messages less the failed deletes; and with the    *)
(* event loop running, each summary is eventually printed.                 *)
(***************************************************************************)
C26_SummaryAlwaysProduced ==
  /\ [](/\ (Fetched1 /\ pc \notin Pass1Pcs \cup {"sum1"}) =>
             /\ Len(summaries) >= 1
             /\ summaries[1].pass = 1
             /\ summaries[1].counts.processedCount = Len(inboxEmails)
             /\ summaries[1].counts.advertisingCount =
                  Cardinality({ m \in InboxIds : Succeeded(m, ADVERTISING_LABEL) })
             /\ summaries[1].counts.notAdvertisingCount =
                  Cardinality({ m \in InboxIds : Succeeded(m, PROCESSED_LABEL) })
        /\ (Fetched2 /\ pc \in Pass2Over) =>
             /\ Len(summaries) = 2
             /\ summaries[2].pass = 2
             /\ summaries[2].counts.deletedCount + summaries[2].counts.skippedDeletionCount
                  + Cardinality({ k \in DeleteCalls : calls[k].res # "ok" })
                  = Len(advEmails)
        /\ Len(summaries) = 2 => Fetched2
        /\ Len(summaries) >= 1 => Fetched1)
  /\ (Fetched1 ~> (Len(summaries) >= 1))
  /\ (Fetched2 ~> (Len(summaries) = 2))

C26_Witness ==
  /\ pc = "done"
  /\ Len(summaries) = 2
  /\ \E i \in 1..Len(calls) : calls[i].op = "addLabel" /\ calls[i].res = "err"
  /\ \E i \in 1..Len(calls) : calls[i].op = "deleteEmail" /\ calls[i].res = "expunge_err"
  /\ summaries[1].counts.processedCount = 2
  /\ summaries[1].counts.notAdvertisingCount = 1
  /\ summaries[2].counts.deletedCount = 0

\* the latest call is a direct fetchEmails that got as far as its search
SearchSent ==
  /\ pc = "idle"
  /\ Len(calls) > 0
  /\ calls[Len(calls)].op = "fetchEmails"
  /\ Len(wire) >= 2

(***************************************************************************)
(* C27.  On a folder provider the search criteria fetchEmails builds hold  *)
(* UNSEEN when includeRead is false (includeUnread true or false), SEEN    *)
(* when includeRead is true and includeUnread false, and no read-state     *)
(* term when both are true; they hold SINCE exactly when maxAgeDays is not *)
(* zero.  The search a direct fetch sends carries these criteria, and the  *)
(* messages it resolves with are unread ones, read ones, or either,        *)
(* accordingly.                                                            *)
(***************************************************************************)
C27_ReadStateCriteria ==
  /\ \A includeRead \in BOOLEAN : \A includeUnread \in BOOLEAN :
       \A maxAgeDays \in FetchAges \cup {MAX_EMAIL_AGE_DAYS} :
          LET t == Range(ImapTerms(FetchOptions(maxAgeDays, 0, includeRead, includeUnread)))
          IN /\ "UNSEEN" \in t <=> ~includeRead
             /\ "SEEN" \in t <=> (includeRead /\ ~includeUnread)
             /\ "SINCE" \in t <=> maxAgeDays # 0
  /\ (SearchSent /\ ~isGmail) =>
       /\ wire[2].cmd = "search"
       /\ wire[2].arg =
            (IF req.maxAgeDays # 0 THEN "ALL SINCE" ELSE "ALL")
            \o (IF ~req.includeRead THEN " UNSEEN"
                ELSE IF ~req.includeUnread THEN " SEEN" ELSE "")
       /\ \A i \in 1..Len(ret.emails) :
            /\ ~req.includeRead => ret.emails[i].id \notin seen
            /\ (req.includeRead /\ ~req.includeUnread) => ret.emails[i].id \in seen

C27_Witness ==
  /\ SearchSent
  /\ ~isGmail
  /\ req = FetchOptions(0, 0, FALSE, FALSE)
  /\ wire[2] = Cmd("search", "ALL UNSEEN", "ok")
  /\ seen = {1}
  /\ Len(ret.emails) = 1
  /\ ret.emails[1].id = 2

\* a direct fetchEmails has resolved with messages
FetchReturned ==
  /\ pc = "idle"
  /\ Len(calls) > 0
  /\ calls[Len(calls)].op = "fetchEmails"
  /\ calls[Len(calls)].res = "all"
  /\ Len(ret.emails) > 0

(***************************************************************************)
(* C28.  Every message fetchEmails returns whose Date header is missing or *)
(* does not parse has ageInDays = 0, and the fetch still resolves; one     *)
(* whose Date header parses has the whole number of elapsed days of the    *)
(* moment of the fetch.                                                    *)
(***************************************************************************)
C28_AsStated ==
  FetchReturned =>
    \A i \in 1..Len(ret.emails) :
       LET e == ret.emails[i]
       IN IF dateHeader[e.id] = "valid" THEN e.ageInDays = age[e.id]
                                       ELSE e.ageInDays = 0

(***************************************************************************)
(* C29.  On a label provider every moveEmail(id, target) step is an        *)
(* addLabel(id, target) step: the same commands, the same outcome, the     *)
(* message where it was and its labels only grown.  On a folder provider   *)
(* a moveEmail that resolves sends openBox INBOX and move, and a message   *)
(* that was in INBOX is in target afterwards and no longer in INBOX, its   *)
(* labels untouched.                                                       *)
(***************************************************************************)
C29_MoveIsLabelOrMove ==
  [][ /\ (isGmail /\ CallMoveEmail) =>
           /\ CallAddLabel
           /\ folder' = folder
           /\ \A m \in Msgs : labels[m] \subseteq labels'[m]
      /\ \A id \in Msgs : \A target \in FolderNames :
           ( /\ ~isGmail
             /\ pc = "idle"
             /\ calls' = Append(calls, Call("moveEmail", id, target, "ok")) ) =>
             /\ wire' = <<Cmd("openBox", INBOX, "ok"), Cmd("move", target, "ok")>>
             /\ labels' = labels
             /\ InBox(id, INBOX) => (folder'[id] = target /\ folder'[id] # INBOX)
             /\ \A m \in Msgs \ {id} : folder'[m] = folder[m]
    ]_vars

\* a folder provider: message 1 was labelled, which only happens to a message
\* in INBOX, and the move that followed resolved
C29_Witness ==
  /\ ~isGmail
  /\ pc = "idle"
  /\ Len(calls) = 3
  /\ calls[2] = Call("addLabel", 1, PROCESSED_LABEL, "ok")
  /\ calls[3] = Call("moveEmail", 1, ADVERTISING_LABEL, "ok")
  /\ labels[1] = {PROCESSED_LABEL}
  /\ folder[1] = ADVERTISING_LABEL
  /\ wire = <<Cmd("openBox", INBOX, "ok"), Cmd("move", ADVERTISING_LABEL, "ok")>>

\* the classifyEmail calls of the batch whose request failed
FailedCalls == { j \in DOMAIN answers : answers[j].kind # "object" }

(***************************************************************************)
(* C30.  classifyBatch, once called, returns, whatever the classifier      *)
(* answers; classifyEmail turns every reply that is an error, empty,       *)
(* unparsable or of the wrong format into the fail-safe default instead of *)
(* rejecting; a call of a window that failed has put that default          *)
(* under its email, a call that succeeded its verdict, the other calls     *)
(* of the window and the later windows go on, and the map returned has an  *)
(* entry for every email of the input.                                     *)
(***************************************************************************)
C30_BatchAlwaysCompletes ==
  /\ [](/\ \A reply \in Replies :
             (reply.kind # "object" \/ ~ValidFormat(reply.obj)) =>
                classifyEmail(reply) = DefaultResult
        /\ DOMAIN batchValues = batchResults
        /\ DOMAIN answers = batchResults
        /\ \A j \in batchResults :
             IF j \in FailedCalls
             THEN batchValues[j] = DefaultResult
             ELSE batchValues[j] = [isAdvertising |-> TRUE, confidence |-> 90, reason |-> 0]
        /\ batchPc = "await" => batchResults \cup inFlight =
             1..(IF batchI + concurrencyLimit < batchLen THEN batchI + concurrencyLimit ELSE batchLen)
        /\ batchPc = "done" => DOMAIN batchValues = 1..batchLen)
  /\ (batchPc \in {"window", "await", "delay"}) ~> (batchPc = "done")

\* every call of the first window failed, one of the second, and the last
\* email still has its verdict
C30_Witness ==
  /\ batchPc = "done"
  /\ batchLen = 11
  /\ FailedCalls = 1..6
  /\ DOMAIN batchValues = 1..11
  /\ batchValues[11].isAdvertising


\* the addLabel operations of the run, in the order of their calls
LabelOps == SelectSeq(Ops, LAMBDA o : o[1] = "addLabel")

(***************************************************************************)
(* C31.  The label operations of Pass 1 depend on the isAdvertising        *)
(* verdicts alone: two classifier results that agree on isAdvertising lead *)
(* to the same branch whatever their confidence, the addLabel operations   *)
(* a run issued in Pass 1 are those determined by what the first fetch     *)
(* returned and the isAdvertising verdicts, and a message classified       *)
(* advertising with a confidence below the threshold has its Advertising   *)
(* addLabel issued, and carries the label when that call succeeded.        *)
(***************************************************************************)
C31_ConfidenceNeverGates ==
  /\ \A a \in BOOLEAN : \A c1 \in {0, 50, 90} : \A c2 \in {0, 50, 90} :
       P1AfterClassify([isAdvertising |-> a, confidence |-> c1, reason |-> 0])
         = P1AfterClassify([isAdvertising |-> a, confidence |-> c2, reason |-> 0])
  /\ Pass1Finished =>
       /\ LabelOps = P1Ops(Len(inboxEmails))
       /\ \A i \in 1..Len(inboxEmails) :
            LET m == inboxEmails[i].id
            IN (/\ results[m].isAdvertising
                /\ results[m].confidence < classificationConfidenceThreshold) =>
                 /\ Tried(m, ADVERTISING_LABEL)
                 /\ Succeeded(m, ADVERTISING_LABEL) => ADVERTISING_LABEL \in labels[m]

\* two advertising verdicts, one below and one above the threshold: the same
\* two label operations for each message, and both carry Advertising
C31_Witness ==
  /\ Pass1Finished
  /\ Len(inboxEmails) = 2
  /\ results[1].isAdvertising /\ results[1].confidence = 50
  /\ results[2].isAdvertising /\ results[2].confidence = 90
  /\ LabelOps = <<(<<"addLabel", 1, ADVERTISING_LABEL>>), (<<"addLabel", 1, PROCESSED_LABEL>>),
                  (<<"addLabel", 2, ADVERTISING_LABEL>>), (<<"addLabel", 2, PROCESSED_LABEL>>)>>
  /\ ADVERTISING_LABEL \in labels[1]
  /\ ADVERTISING_LABEL \in labels[2]


(***************************************************************************)
(* C32 (as stated).  Whatever boxes the provider reports, the list that    *)
(* listFolders resolves with holds no name twice, no empty or blank name,  *)
(* and no name that ends in a slash.                                       *)
(***************************************************************************)
C32_AsStated ==
  listed.state = "resolved" =>
    LET fs == listed.folders
    IN /\ \A i \in 1..Len(fs) : \A j \in 1..Len(fs) : i # j => fs[i] # fs[j]
       /\ \A i \in 1..Len(fs) :
            /\ fs[i] # << >>
            /\ Trim(fs[i]) # << >>
            /\ fs[i][Len(fs[i])] # "/"


(***************************************************************************)
(* C33.  Every deleteEmail call of a run names the Advertising location    *)
(* and a message that the run's second fetch returned with an ageInDays at *)
(* or above the threshold; a message is expunged in the run only by such a *)
(* call, so a message the second fetch did not return, one classified not  *)
(* advertising or given the fail-safe default among them, is never         *)
(* deleted.                                                                *)
(***************************************************************************)
C33_DeletionSafety ==
  /\ \A i \in DeleteCalls :
       /\ Fetched2
       /\ calls[i].arg = ADVERTISING_LABEL
       /\ \E j \in 1..Len(advEmails) :
            /\ advEmails[j].id = calls[i].id
            /\ advEmails[j].ageInDays >= DELETE_FROM_ADVERTISING_DAYS
  /\ \A m \in expunged :
       /\ Fetched2 /\ m \in AdvIds
       /\ \E i \in DeleteCalls : calls[i].id = m /\ calls[i].res = "ok"
  /\ \A m \in Msgs :
       (results[m].kind # "none" /\ ~results[m].isAdvertising /\ ~(Fetched2 /\ m \in AdvIds))
         => m \notin expunged

\* a folder provider: message 1 lay in Advertising and was deleted, message 2
\* was classified in Pass 1, got the fail-safe default, and is still there
C33_Witness ==
  /\ pc = "done"
  /\ expunged = {1}
  /\ AdvIds = {1}
  /\ results[2].kind = "failed"
  /\ PROCESSED_LABEL \in labels[2]
  /\ folder[2] = INBOX


(***************************************************************************)
(* C34 (as stated).  On a label provider, when ensureFolderExists had to   *)
(* create the Advertising label in this run, the box that was created is   *)
(* the one the second pass opens: at the second fetch the location named   *)
(* 'Advertising' can be opened.                                            *)
(***************************************************************************)
C34_AsStated ==
  (/\ isGmail
   /\ pc = "fetch2"
   /\ CreateName(ADVERTISING_LABEL) \in boxes)
  => CanOpen(ADVERTISING_LABEL)


(***************************************************************************)
(* C35 (as stated).  Every fetchEmails call that main() awaits settles:    *)
(* from either fetch the run goes on, to the loop, the summary or the      *)
(* catch block, also when the provider delivered some but not all of the   *)
(* messages asked for.                                                     *)
(***************************************************************************)
C35_AsStated == (pc \in {"fetch1", "fetch2"}) ~> (pc \notin {"fetch1", "fetch2", "hung"})


\* the commands that name a message by its id
IdCommands == {"addLabels", "addFlags", "expunge", "move"}

\* every command of w that names a message comes after the opening of box b, and
\* w opens no other box
AppliedIn(w, b) ==
  \A i \in 1..Len(w) :
     /\ w[i].cmd = "openBox" => w[i].arg = b
     /\ w[i].cmd \in IdCommands =>
          \E j \in 1..(i - 1) : w[j] = Cmd("openBox", b, "ok")

(***************************************************************************)
(* C36.  In a run an id is used only against the location it was fetched   *)
(* from: every addLabel is made in Pass 1 for an id the INBOX fetch        *)
(* returned and sends its store command with INBOX opened; every           *)
(* deleteEmail is made in Pass 2 for an id the Advertising fetch returned  *)
(* and sends its flag and expunge commands with the Advertising location   *)
(* opened; no other call of the run names a message.                       *)
(***************************************************************************)
C36_IdUsedWhereFetched ==
  [][ IsCall =>
        /\ TheCall.op = "addLabel" =>
             /\ pc \in Pass1Pcs /\ Fetched1
             /\ TheCall.id \in InboxIds
             /\ AppliedIn(wire', INBOX)
        /\ TheCall.op = "deleteEmail" =>
             /\ pc = "p2" /\ Fetched2
             /\ TheCall.id \in AdvIds
             /\ TheCall.arg = ADVERTISING_LABEL
             /\ AppliedIn(wire', ADVERTISING_LABEL)
        /\ TheCall.op \notin {"addLabel", "deleteEmail"} =>
             /\ TheCall.id = 0
             /\ \A i \in 1..Len(wire') : wire'[i].cmd \notin IdCommands ]_vars

\* a folder provider: message 2 came from INBOX and was labelled there, message
\* 1 came from Advertising and has just been deleted there
C36_Witness ==
  /\ Fetched1 /\ Fetched2
  /\ InboxIds = {2}
  /\ AdvIds = {1}
  /\ Succeeded(2, PROCESSED_LABEL)
  /\ calls[Len(calls)] = Call("deleteEmail", 1, ADVERTISING_LABEL, "ok")
  /\ wire[1] = Cmd("openBox", ADVERTISING_LABEL, "ok")
  /\ 1 \in expunged


\* the addLabel calls of the run for a label that resolved
LabelledOk(label) ==
  { i \in 1..Len(calls) :
      calls[i].op = "addLabel" /\ calls[i].arg = label /\ calls[i].res = "ok" }

\* the deleteEmail calls of the run that rejected
FailedDeletes == { i \in DeleteCalls : calls[i].res # "ok" }

(***************************************************************************)
(* C37.  Once Pass 1 is over, processed is the number of messages the      *)
(* first fetch returned, marked-advertising the number of Advertising      *)
(* addLabel calls that resolved, marked-processed the number of Processed  *)
(* addLabel calls that resolved, both at most processed, and skipped is 0; *)
(* the first summary printed these counts.  Once the loop of Pass 2 is     *)
(* over, deleted + skipped-for-age + the number of deleteEmail calls that  *)
(* rejected is the number of messages the second fetch returned.           *)
(***************************************************************************)
C37_CountInvariants ==
  /\ Pass1Finished =>
       /\ counts.processedCount = Len(inboxEmails)
       /\ counts.advertisingCount = Cardinality(LabelledOk(ADVERTISING_LABEL))
       /\ counts.notAdvertisingCount = Cardinality(LabelledOk(PROCESSED_LABEL))
       /\ counts.advertisingCount <= counts.processedCount
       /\ counts.notAdvertisingCount <= counts.processedCount
       /\ counts.skippedCount = 0
  /\ Len(summaries) >= 1 =>
       /\ summaries[1].counts.processedCount = Len(inboxEmails)
       /\ summaries[1].counts.advertisingCount = counts.advertisingCount
       /\ summaries[1].counts.notAdvertisingCount = counts.notAdvertisingCount
  /\ (Fetched2 /\ pc \in Pass2Over \cup {"sum2"}) =>
       counts.deletedCount + counts.skippedDeletionCount + Cardinality(FailedDeletes)
         = Len(advEmails)

\* the message of Pass 1 was labelled Advertising but its Processed addLabel
\* failed; the delete of the message fetched in Pass 2 failed
C37_Witness ==
  /\ pc = "done"
  /\ Len(summaries) = 2
  /\ Len(inboxEmails) = 1
  /\ counts.processedCount = 1
  /\ counts.advertisingCount = 1
  /\ counts.notAdvertisingCount = 0
  /\ Len(advEmails) = 1
  /\ counts.deletedCount = 0
  /\ counts.skippedDeletionCount = 0
  /\ Cardinality(FailedDeletes) = 1


(***************************************************************************)
(* C38.  The connected flag follows the events of the connection: it is    *)
(* true only while the latest event is 'ready', it becomes true only on a  *)
(* 'ready' event, and an 'error' or 'end' event leaves it false.  A        *)
(* disconnect() called while the flag is false, as after an 'error' that   *)
(* followed a successful connect, returns at once: it sends no end and     *)
(* leaves the connection as it is.                                         *)
(***************************************************************************)
C38_FlagTracksTransport ==
  /\ [](connected => (lastEvent = "ready" /\ transport \in {"up", "ending"}))
  /\ [](lastEvent \in {"error", "end"} => ~connected)
  /\ [][ /\ (connected' /\ ~connected) => (lastEvent' = "ready" /\ transport = "connecting")
         /\ (IsCall /\ TheCall.op = "disconnect" /\ ~connected) =>
              /\ TheCall.res = "noop"
              /\ wire' = << >>
              /\ UNCHANGED sessVars ]_vars

\* connect() succeeded (a listing was carried out), an 'error' event followed,
\* and the disconnect() after it was a no-op
C38_Witness ==
  /\ pc = "idle"
  /\ Len(calls) = 3
  /\ calls[1] = Call("connect", 0, "", "sent")
  /\ calls[2] = Call("listFolders", 0, "", "ok")
  /\ calls[3] = Call("disconnect", 0, "", "noop")
  /\ lastEvent = "error"
  /\ ~connected
  /\ transport = "down"
  /\ wire = << >>


\* the message the Pass 1 loop is at
Current == inboxEmails[idx].id

\* no addLabel call of the run names message m
Untouched(m) == ~Tried(m, ADVERTISING_LABEL) /\ ~Tried(m, PROCESSED_LABEL)

\* Pass 1 handles one message at a time, Advertising before Processed: the
\* messages after the current one are neither classified nor labelled, the
\* current one is classified before its first addLabel, its Advertising addLabel
\* (when classified advertising) has been made when the Processed one is about
\* to be, and in the log of calls no Processed addLabel of a message precedes
\* its Advertising addLabel
P1Ordered ==
  /\ (Fetched1 /\ pc \in Pass1Pcs) =>
       /\ \A j \in (idx + 1)..Len(inboxEmails) :
            results[inboxEmails[j].id].kind = "none" /\ Untouched(inboxEmails[j].id)
       /\ pc = "p1" => (results[Current].kind = "none" /\ Untouched(Current))
       /\ pc = "p1adv" => (results[Current].isAdvertising /\ Untouched(Current))
       /\ pc = "p1proc" =>
            /\ results[Current].kind # "none"
            /\ ~Tried(Current, PROCESSED_LABEL)
            /\ Tried(Current, ADVERTISING_LABEL) <=> results[Current].isAdvertising
  /\ \A a \in 1..Len(calls) : \A b \in 1..Len(calls) :
       (/\ a < b
        /\ calls[a].op = "addLabel" /\ calls[b].op = "addLabel"
        /\ calls[a].id = calls[b].id)
       => (calls[a].arg = ADVERTISING_LABEL /\ calls[b].arg = PROCESSED_LABEL)

====
